---- MODULE Spec2Model ----
(***************************************************************************)
(* A model of axum-params: the Rack-style nested query parser              *)
(* (src/src/query_parser.rs), the value tree it builds (src/src/value.rs)  *)
(* and the serde adapter that decodes a value into a typed destination     *)
(* (src/src/serde.rs).                                                     *)
(*                                                                         *)
(* Text is a sequence of one-character strings, so that the byte-wise      *)
(* slicing, searching and prefix tests of the parser are computed and not  *)
(* assumed.  A HashMap<String, Value> is a function from text to values.   *)
(***************************************************************************)
EXTENDS Integers, Sequences, FiniteSets, TLC

VARIABLES
    param_depth_limit, \* QueryParser.param_depth_limit
    params,            \* the tree being built (merged_params in Params::from_request)
    before,            \* the tree as it was when the last operation started
    op,                \* the last operation: "none", "pair", "value", "query", "decode"
    pair,              \* the raw text of the pair the last operation was given
    key,               \* the decoded key the last operation normalized
    value,             \* the Value the last operation was given
    result,            \* what the last operation returned: Ok or a QueryParserError
    raised,            \* the first error constructed inside the last operation, or Ok
    n,                 \* number of operations applied to the tree so far
    decoded,           \* result of the final deserialization into the destination type
    input,             \* operands of a direct call (Value::merge, merge_into, parse_json)
    output             \* what that call returned

vars == <<param_depth_limit, params, before, op, pair, key, value, result, raised, n, decoded,
          input, output>>

-----------------------------------------------------------------------------
(* Bounds of the model *)

\* pairs / fields folded into one tree in one request
MaxPairs == 2
\* the largest depth limit a QueryParser is configured with (QueryParser::new(Some(limit)))
MaxLimit == 6
\* the longest text drawn over TextAlphabet for the decoder
MaxTextLen == 4

\* query_parser.rs:10
DEFAULT_PARAM_DEPTH_LIMIT == 100

-----------------------------------------------------------------------------
(* Text helpers: what the str methods used by the parser compute *)

\* str::find(char): 1-based position of the first occurrence of c in s, 0 when absent
Find(s, c) ==
    IF \E i \in 1..Len(s) : s[i] = c
    THEN CHOOSE i \in 1..Len(s) : s[i] = c /\ \A j \in 1..(i - 1) : s[j] # c
    ELSE 0

\* str::starts_with(&str)
StartsWith(s, p) ==
    Len(s) >= Len(p) /\ SubSeq(s, 1, Len(p)) = p

\* str::ends_with(&str)
EndsWith(s, p) ==
    Len(s) >= Len(p) /\ SubSeq(s, Len(s) - Len(p) + 1, Len(s)) = p

\* the remainder after str::strip_prefix(p) succeeded
StripPrefix(s, p) == SubSeq(s, Len(p) + 1, Len(s))

\* str::contains(&str)
Contains(s, p) ==
    \E i \in 1..(Len(s) - Len(p) + 1) : SubSeq(s, i, i + Len(p) - 1) = p

-----------------------------------------------------------------------------
(* Value (value.rs:67-77) *)

Null == [t |-> "Null"]
XStr(s) == [t |-> "XStr", s |-> s]
String(s) == [t |-> "String", s |-> s]
Bool(b) == [t |-> "Bool", b |-> b]
Object(m) == [t |-> "Object", m |-> m]
Array(a) == [t |-> "Array", a |-> a]
UploadFile(name, content_type, temp_file_path) ==
    [t |-> "UploadFile", name |-> name, content_type |-> content_type,
     temp_file_path |-> temp_file_path]

\* HashMap::new()
EmptyMap == [x \in {} |-> Null]

\* HashMap::insert
Insert(m, k, v) == [x \in (DOMAIN m) \cup {k} |-> IF x = k THEN v ELSE m[x]]

\* HashMap::entry(k).or_insert_with(|| d): the map after the call
OrInsert(m, k, d) == IF k \in DOMAIN m THEN m ELSE Insert(m, k, d)

\* Option<T>
None == [some |-> FALSE]
Some(x) == [some |-> TRUE, v |-> x]

\* Value::xstr
xstr(s) == XStr(s)

\* Value::xstr_opt
xstr_opt(o) == IF o.some THEN XStr(o.v) ELSE Null

\* Value::type_name
type_name(v) ==
    CASE v.t = "Null" -> "null"
      [] v.t = "Bool" -> "bool"
      [] v.t = "Number" -> "number"
      [] v.t = "String" -> "string"
      [] v.t = "Object" -> "object"
      [] v.t = "Array" -> "array"
      [] v.t = "XStr" -> "string"
      [] v.t = "UploadFile" -> "file"

-----------------------------------------------------------------------------
(* form_urlencoded::parse, as parse_nested_query_into uses it: the decoded    *)
(* name of the first pair of the given text.  A character is a one-character  *)
(* string when it is printable ASCII, "^<n>" for another single byte n (the   *)
(* control characters and the backquote, byte 96) and                         *)
(* "U+<code point>" when its UTF-8 encoding has more than one byte.            *)

\* the printable ASCII characters, byte 32 to byte 126
Ascii ==
    <<" ","!","\"","#","$","%","&","'","(",")","*","+",",","-",".","/",
      "0","1","2","3","4","5","6","7","8","9",":",";","<","=",">","?",
      "@","A","B","C","D","E","F","G","H","I","J","K","L","M","N","O",
      "P","Q","R","S","T","U","V","W","X","Y","Z","[","\\","]","^","_",
      "^96","a","b","c","d","e","f","g","h","i","j","k","l","m","n","o",
      "p","q","r","s","t","u","v","w","x","y","z","{","|","}","~">>

Chr(b) == IF b >= 32 /\ b <= 126 THEN Ascii[b - 31] ELSE "^" \o ToString(b)

Ord(c) == 31 + CHOOSE i \in 1..Len(Ascii) : Ascii[i] = c

SingleByteChars == {Chr(b) : b \in 0..127}

\* the length in bytes of the UTF-8 encoding of c is 1
IsSingleByte(c) == c \in SingleByteChars

REPLACEMENT_CHARACTER == "U+" \o ToString(65533)

HexDigits == <<"0", "1", "2", "3", "4", "5", "6", "7", "8", "9",
               "A", "B", "C", "D", "E", "F">>
LowerHexDigits == <<"0", "1", "2", "3", "4", "5", "6", "7", "8", "9",
                    "a", "b", "c", "d", "e", "f">>

IsHex(c) == \E i \in 1..16 : HexDigits[i] = c \/ LowerHexDigits[i] = c

HexVal(c) == (CHOOSE i \in 1..16 : HexDigits[i] = c \/ LowerHexDigits[i] = c) - 1

\* replace_plus, then percent_decode: the bytes of the decoded text
RECURSIVE PercentDecode(_)
PercentDecode(s) ==
    IF s = <<>> THEN <<>>
    ELSE IF s[1] = "+" THEN <<32>> \o PercentDecode(Tail(s))
    ELSE IF s[1] = "%" /\ Len(s) >= 3 /\ IsHex(s[2]) /\ IsHex(s[3])
         THEN <<16 * HexVal(s[2]) + HexVal(s[3])>> \o PercentDecode(SubSeq(s, 4, Len(s)))
    ELSE <<Ord(s[1])>> \o PercentDecode(Tail(s))

IsCont(bs, i) == i <= Len(bs) /\ bs[i] >= 128 /\ bs[i] <= 191

\* the second byte of a 3- or 4-byte sequence lies in the range its lead byte allows
SecondOk(bs) ==
    /\ Len(bs) >= 2
    /\ CASE bs[1] = 224 -> bs[2] >= 160 /\ bs[2] <= 191
         [] bs[1] = 237 -> bs[2] >= 128 /\ bs[2] <= 159
         [] bs[1] = 240 -> bs[2] >= 144 /\ bs[2] <= 191
         [] bs[1] = 244 -> bs[2] >= 128 /\ bs[2] <= 143
         [] OTHER -> bs[2] >= 128 /\ bs[2] <= 191

\* String::from_utf8_lossy: every maximal invalid part becomes U+FFFD
RECURSIVE Utf8Lossy(_)
Utf8Lossy(bs) ==
    IF bs = <<>> THEN <<>>
    ELSE LET b == bs[1]
             skip(k) == Utf8Lossy(SubSeq(bs, k + 1, Len(bs)))
             bad(k) == <<REPLACEMENT_CHARACTER>> \o skip(k)
             char(cp, k) == <<"U+" \o ToString(cp)>> \o skip(k)
         IN
         IF b < 128 THEN <<Chr(b)>> \o skip(1)
         ELSE IF b >= 194 /\ b <= 223 THEN
             IF IsCont(bs, 2) THEN char((b - 192) * 64 + (bs[2] - 128), 2) ELSE bad(1)
         ELSE IF b >= 224 /\ b <= 239 THEN
             IF ~SecondOk(bs) THEN bad(1)
             ELSE IF ~IsCont(bs, 3) THEN bad(2)
             ELSE char((b - 224) * 4096 + (bs[2] - 128) * 64 + (bs[3] - 128), 3)
         ELSE IF b >= 240 /\ b <= 244 THEN
             IF ~SecondOk(bs) THEN bad(1)
             ELSE IF ~IsCont(bs, 3) THEN bad(2)
             ELSE IF ~IsCont(bs, 4) THEN bad(3)
             ELSE char((b - 240) * 262144 + (bs[2] - 128) * 4096
                       + (bs[3] - 128) * 64 + (bs[4] - 128), 4)
         ELSE bad(1)

\* a faulty variant: the text is decoded before it is cut at '='
FirstNameDecodedFirst(text) ==
    IF text = <<>> THEN <<>>
    ELSE LET whole == Utf8Lossy(PercentDecode(text))
             eq == Find(whole, "=")
         IN IF eq = 0 THEN whole ELSE SubSeq(whole, 1, eq - 1)

\* form_urlencoded::parse(text).next().map(|(k, _)| k.into_owned()).unwrap_or_default()
\* for a text without '&': an empty text has no pair; otherwise the name of the pair
\* is what precedes its first '='
FirstName(text) ==
    IF text = <<>> THEN <<>>
    ELSE LET eq == Find(text, "=")
             name == IF eq = 0 THEN text ELSE SubSeq(text, 1, eq - 1)
         IN Utf8Lossy(PercentDecode(name))

\* a faulty variant: a pair without a name is stored under its value
KeyValueNamedByValue(p) ==
    LET eq == Find(p, "=") IN
    IF eq = 1
    THEN [key |-> FirstName(SubSeq(p, 2, Len(p))),
          value |-> Some(FirstName(SubSeq(p, 2, Len(p))))]
    ELSE IF eq # 0
    THEN [key |-> FirstName(SubSeq(p, 1, eq - 1)),
          value |-> Some(FirstName(SubSeq(p, eq + 1, Len(p))))]
    ELSE [key |-> FirstName(p), value |-> None]

\* pair.split_once('=') and the decoding of both halves: the (key, value) of a pair
KeyValue(p) ==
    LET eq == Find(p, "=") IN
    IF eq # 0
    THEN [key |-> FirstName(SubSeq(p, 1, eq - 1)),
          value |-> Some(FirstName(SubSeq(p, eq + 1, Len(p))))]
    ELSE [key |-> FirstName(p), value |-> None]

-----------------------------------------------------------------------------
(* QueryParserError (query_parser.rs:12-17) *)

Ok == [kind |-> "Ok"]

ParamsTooDeepError == [kind |-> "ParamsTooDeepError"]

\* &name[1..] when byte 1 of name is not a character boundary: the thread panics
Panic == [kind |-> "Panic"]

\* format!("expected {} (got {}) for param `{}`", expected, entry.type_name(), k)
ParameterTypeError(expected, got, k) ==
    [kind |-> "ParameterTypeError", expected |-> expected, got |-> got, param |-> k]

-----------------------------------------------------------------------------
(* QueryParser::_normalize_params *)

\* a faulty variant: at depth 0 the '[' is searched from the first character on
SplitKeyFromStart(name, depth) ==
    IF name = <<>> THEN [k |-> <<>>, after |-> <<>>]
    ELSE IF depth = 0 THEN
        LET start == Find(name, "[") IN
        IF start # 0
        THEN [k |-> SubSeq(name, 1, start - 1), after |-> SubSeq(name, start, Len(name))]
        ELSE [k |-> name, after |-> <<>>]
    ELSE IF StartsWith(name, <<"[", "]">>) THEN
        [k |-> <<"[", "]">>, after |-> StripPrefix(name, <<"[", "]">>)]
    ELSE IF StartsWith(name, <<"[">>) THEN
        LET stripped == StripPrefix(name, <<"[">>)
            start == Find(stripped, "]")
        IN IF start # 0
           THEN [k |-> SubSeq(stripped, 1, start - 1),
                 after |-> SubSeq(stripped, start + 1, Len(stripped))]
           ELSE [k |-> name, after |-> <<>>]
    ELSE [k |-> name, after |-> <<>>]

\* the (k, after) split at the head of _normalize_params
SplitKey(name, depth) ==
    IF name = <<>> THEN [k |-> <<>>, after |-> <<>>]
    ELSE IF depth = 0 THEN
        LET start == Find(Tail(name), "[") IN
        IF start # 0
        THEN [k |-> SubSeq(name, 1, start), after |-> SubSeq(name, start + 1, Len(name))]
        ELSE [k |-> name, after |-> <<>>]
    ELSE IF StartsWith(name, <<"[", "]">>) THEN
        [k |-> <<"[", "]">>, after |-> StripPrefix(name, <<"[", "]">>)]
    ELSE IF StartsWith(name, <<"[">>) THEN
        LET stripped == StripPrefix(name, <<"[">>)
            start == Find(stripped, "]")
        IN IF start # 0
           THEN [k |-> SubSeq(stripped, 1, start - 1),
                 after |-> SubSeq(stripped, start + 1, Len(stripped))]
           ELSE [k |-> name, after |-> <<>>]
    ELSE [k |-> name, after |-> <<>>]

\* the child key of the x[][y] branch: `after` is the text following "[]"
ChildKey(after) ==
    IF \/ ~StartsWith(after, <<"[">>)
       \/ ~EndsWith(after, <<"]">>)
       \/ Contains(SubSeq(after, 2, Len(after) - 1), <<"[">>)
       \/ Contains(SubSeq(after, 2, Len(after) - 1), <<"]">>)
       \/ SubSeq(after, 2, Len(after) - 1) = <<>>
    THEN after
    ELSE SubSeq(after, 2, Len(after) - 1)

\* key.split(['[', ']']).filter(|part| !part.is_empty()).collect()
RECURSIVE SplitParts(_)
SplitParts(s) ==
    IF s = <<>> THEN <<>>
    ELSE IF s[1] \in {"[", "]"} THEN SplitParts(Tail(s))
    ELSE LET stop == CHOOSE i \in 1..(Len(s) + 1) :
                        /\ i > Len(s) \/ s[i] \in {"[", "]"}
                        /\ \A j \in 1..(i - 1) : s[j] \notin {"[", "]"}
         IN <<SubSeq(s, 1, stop - 1)>> \o SplitParts(SubSeq(s, stop, Len(s)))

\* a faulty variant: only the first part of the child key is looked up
HasPartsFirstOnly(hash, parts) ==
    IF parts = <<>> THEN TRUE ELSE Head(parts) \in DOMAIN hash

\* the loop of params_hash_has_key over the parts
RECURSIVE HasParts(_, _)
HasParts(hash, parts) ==
    IF parts = <<>> THEN TRUE
    ELSE IF Head(parts) \in DOMAIN hash THEN
        LET next == hash[Head(parts)] IN
        IF next.t = "Object" THEN HasParts(next.m, Tail(parts)) ELSE TRUE
    ELSE FALSE

\* a faulty variant: the test of the child key is inverted
params_hash_has_key_inverted(hash, k) ==
    IF Contains(k, <<"[", "]">>) THEN FALSE ELSE ~HasParts(hash, SplitParts(k))

params_hash_has_key(hash, k) ==
    IF Contains(k, <<"[", "]">>) THEN FALSE ELSE HasParts(hash, SplitParts(k))

\* a faulty variant: the depth test is off by one
TooDeepOffByOne(limit, depth) == depth > limit

\* depth >= self.param_depth_limit
TooDeep(limit, depth) == depth >= limit

\* a faulty variant: a repeated plain key collects its values in an array
InsertValueCollecting(m, k, v) ==
    IF k \in DOMAIN m
    THEN Insert(m, k, Array(IF m[k].t = "Array" THEN Append(m[k].a, v) ELSE <<m[k], v>>))
    ELSE Insert(m, k, v)

\* params.insert(k.to_string(), v)
InsertValue(m, k, v) == Insert(m, k, v)

\* params.entry(k).or_insert_with(|| Value::Array(Vec::new()))
ArrayEntry(m, k) == OrInsert(m, k, Array(<<>>))

\* a faulty variant: an entry of another type is replaced by a new Object
ObjectEntryReplacing(m, k) ==
    IF k \in DOMAIN m /\ m[k].t = "Object" THEN m ELSE Insert(m, k, Object(EmptyMap))

\* params.entry(k).or_insert_with(|| Value::Object(HashMap::new()))
ObjectEntry(m, k) == OrInsert(m, k, Object(EmptyMap))

\* a faulty variant: the value is put in front
PushFront(vec, v) == <<v>> \o vec

\* vec.push(v)
Push(vec, v) == Append(vec, v)

\* Result of one call: the error (or Ok), the map as the call left it (the map is
\* mutated in place, also by a call that fails), the Value returned on Ok, and
\* `raised`: the first Err constructed at any level of the call, which is `err`
\* unless a caller dropped it on the way up
Return(err, m, ret) == [err |-> err, params |-> m, ret |-> ret, raised |-> err]

\* the result of a level that made the recursive call r
ReturnAfter(r, err, m, ret) ==
    [err |-> err, params |-> m, ret |-> ret,
     raised |-> IF r.raised # Ok THEN r.raised ELSE err]

RECURSIVE _normalize_params(_, _, _, _, _)
_normalize_params(limit, m, name, v, depth) ==
    IF TooDeep(limit, depth) THEN Return(ParamsTooDeepError, m, Null)
    ELSE IF depth = 0 /\ name # <<>> /\ ~IsSingleByte(name[1]) THEN Return(Panic, m, Null)
    ELSE
    LET k == SplitKey(name, depth).k
        after == SplitKey(name, depth).after
    IN
    IF k = <<>> THEN Return(Ok, m, Null)
    ELSE IF after = <<>> THEN
        IF k = <<"[", "]">> /\ depth # 0
        THEN Return(Ok, m, Array(<<v>>))
        ELSE LET m1 == InsertValue(m, k, v) IN Return(Ok, m1, Object(m1))
    ELSE IF after = <<"[">> THEN
        LET m1 == InsertValue(m, name, v) IN Return(Ok, m1, Object(m1))
    ELSE IF after = <<"[", "]">> THEN
        LET m1 == ArrayEntry(m, k)
            entry == m1[k]
        IN IF entry.t = "Array"
           THEN LET m2 == Insert(m1, k, Array(Push(entry.a, v)))
                IN Return(Ok, m2, Object(m2))
           ELSE Return(ParameterTypeError("Array", type_name(entry), k), m1, Null)
    ELSE IF StartsWith(after, <<"[", "]">>) THEN
        \* x[][y]: a hash inside an array
        LET child_key == ChildKey(StripPrefix(after, <<"[", "]">>))
            m1 == ArrayEntry(m, k)
            entry == m1[k]
        IN IF entry.t = "Array"
           THEN LET vec == entry.a
                    \* normalized into new_params, then pushed
                    fresh == _normalize_params(limit, EmptyMap, child_key, v, depth + 1)
                    pushed == Insert(m1, k, Array(Push(vec, fresh.ret)))
                    started == IF fresh.err # Ok
                               THEN ReturnAfter(fresh, fresh.err, m1, Null)
                               ELSE ReturnAfter(fresh, Ok, pushed, Object(pushed))
                IN IF Len(vec) > 0 /\ vec[Len(vec)].t = "Object"
                   THEN LET hash == vec[Len(vec)].m IN
                        IF ~params_hash_has_key(hash, child_key)
                        THEN \* let _ = self._normalize_params(&mut *hash, ...):
                             \* the Result is dropped, the in-place changes stay
                             LET r == _normalize_params(limit, hash, child_key, v, depth + 1)
                                 m2 == Insert(m1, k,
                                         Array([vec EXCEPT ![Len(vec)] = Object(r.params)]))
                             IN ReturnAfter(r, Ok, m2, Object(m2))
                        ELSE started
                   ELSE started
           ELSE Return(ParameterTypeError("Array", type_name(entry), k), m1, Null)
    ELSE
        LET m1 == ObjectEntry(m, k)
            entry == m1[k]
        IN IF entry.t = "Object"
           THEN LET r == _normalize_params(limit, entry.m, after, v, depth + 1)
                    m2 == Insert(m1, k, Object(r.params))
                IN IF r.err # Ok THEN ReturnAfter(r, r.err, m2, Null)
                   ELSE ReturnAfter(r, Ok, m2, Object(m2))
           ELSE Return(ParameterTypeError("Object", type_name(entry), k), m1, Null)

-----------------------------------------------------------------------------
(* str::parse of the numeric types, on the text itself: the literals are    *)
(* compared digit by digit, so that the 64-bit ranges are the real ones     *)

Digits == <<"0", "1", "2", "3", "4", "5", "6", "7", "8", "9">>

IsDigit(c) == \E i \in 1..10 : Digits[i] = c

DigitVal(c) == (CHOOSE i \in 1..10 : Digits[i] = c) - 1

\* one or more decimal digits
IsDigits(s) == s # <<>> /\ \A i \in 1..Len(s) : IsDigit(s[i])

\* zero or more decimal digits
IsDigitsOpt(s) == \A i \in 1..Len(s) : IsDigit(s[i])

\* the digits without their leading zeros
RECURSIVE StripZeros(_)
StripZeros(s) == IF Len(s) > 1 /\ s[1] = "0" THEN StripZeros(Tail(s)) ELSE s

\* a <= b for two digit texts of one length
RECURSIVE LexLeq(_, _)
LexLeq(a, b) ==
    IF a = <<>> THEN TRUE
    ELSE IF a[1] = b[1] THEN LexLeq(Tail(a), Tail(b))
    ELSE DigitVal(a[1]) < DigitVal(b[1])

\* a <= b for two digit texts
MagLeq(a, b) ==
    LET x == StripZeros(a)
        y == StripZeros(b)
    IN Len(x) < Len(y) \/ (Len(x) = Len(y) /\ LexLeq(x, y))

\* i64::MAX, the magnitude of i64::MIN, u64::MAX
I64_MAX == <<"9", "2", "2", "3", "3", "7", "2", "0", "3", "6",
             "8", "5", "4", "7", "7", "5", "8", "0", "7">>
I64_MIN_MAGNITUDE == <<"9", "2", "2", "3", "3", "7", "2", "0", "3", "6",
                       "8", "5", "4", "7", "7", "5", "8", "0", "8">>
U64_MAX == <<"1", "8", "4", "4", "6", "7", "4", "4", "0", "7",
             "3", "7", "0", "9", "5", "5", "1", "6", "1", "5">>

\* a number as sign and magnitude (the digits without leading zeros)
Number(neg, mag) ==
    [neg |-> neg /\ StripZeros(mag) # <<"0">>, mag |-> StripZeros(mag)]

\* s.parse::<i64>(): an optional sign, then digits, within the range of i64
ParseI64(s) ==
    LET signed == s # <<>> /\ s[1] \in {"+", "-"}
        neg == s # <<>> /\ s[1] = "-"
        digits == IF signed THEN Tail(s) ELSE s
    IN IF IsDigits(digits) /\ MagLeq(digits, IF neg THEN I64_MIN_MAGNITUDE ELSE I64_MAX)
       THEN Some(Number(neg, digits))
       ELSE None

\* s.parse::<u64>(): an optional `+`, then digits, within the range of u64
ParseU64(s) ==
    LET digits == IF s # <<>> /\ s[1] = "+" THEN Tail(s) ELSE s
    IN IF IsDigits(digits) /\ MagLeq(digits, U64_MAX)
       THEN Some(Number(FALSE, digits))
       ELSE None

\* the largest magnitude of an integer type on each side of zero
MaxMagnitude(signed, bits, neg) ==
    CASE bits = 8 -> IF ~signed THEN <<"2", "5", "5">> ELSE IF neg THEN <<"1", "2", "8">> ELSE <<"1", "2", "7">>
      [] bits = 16 -> IF ~signed THEN <<"6", "5", "5", "3", "5">> ELSE IF neg THEN <<"3", "2", "7", "6", "8">> ELSE <<"3", "2", "7", "6", "7">>
      [] bits = 32 -> IF ~signed THEN <<"4", "2", "9", "4", "9", "6", "7", "2", "9", "5">> ELSE IF neg THEN <<"2", "1", "4", "7", "4", "8", "3", "6", "4", "8">> ELSE <<"2", "1", "4", "7", "4", "8", "3", "6", "4", "7">>
      [] bits = 64 -> IF ~signed THEN U64_MAX ELSE IF neg THEN I64_MIN_MAGNITUDE ELSE I64_MAX

\* a faulty variant: every width is parsed as the 64-bit type of its signedness
ParseIntegerWide(signed, bits, s) == IF signed THEN ParseI64(s) ELSE ParseU64(s)

\* s.parse::<T>() of an integer type T: an optional '+', or '-' for a signed
\* type, then digits, within the range of T
ParseInteger(signed, bits, s) ==
    LET sign == s # <<>> /\ (s[1] = "+" \/ (signed /\ s[1] = "-"))
        neg == s # <<>> /\ s[1] = "-"
        digits == IF sign THEN Tail(s) ELSE s
    IN IF IsDigits(digits) /\ MagLeq(digits, MaxMagnitude(signed, bits, neg))
       THEN Some(Number(neg, digits))
       ELSE None

\* char::to_ascii_lowercase of every letter of an ASCII text
ToLowercase(s) ==
    [i \in 1..Len(s) |->
        IF IsSingleByte(s[i]) /\ Len(s[i]) = 1 /\ Ord(s[i]) >= 65 /\ Ord(s[i]) <= 90
        THEN Chr(Ord(s[i]) + 32) ELSE s[i]]

\* the decimal part of a float literal: digits, digits `.` digits?, digits? `.` digits
IsDecimal(s) ==
    LET dot == Find(s, ".")
        int == SubSeq(s, 1, dot - 1)
        frac == SubSeq(s, dot + 1, Len(s))
    IN IF dot = 0 THEN IsDigits(s)
       ELSE IsDigitsOpt(int) /\ IsDigitsOpt(frac) /\ (int # <<>> \/ frac # <<>>)

\* an exponent after `e`: an optional sign, then digits
IsExponent(s) ==
    IsDigits(IF s # <<>> /\ s[1] \in {"+", "-"} THEN Tail(s) ELSE s)

\* s.parse::<f64>() succeeds: an optional sign, then inf, infinity, nan (in any
\* case) or a decimal with an optional exponent
IsF64(s) ==
    LET body == ToLowercase(IF s # <<>> /\ s[1] \in {"+", "-"} THEN Tail(s) ELSE s)
        e == Find(body, "e")
    IN \/ body \in {<<"i", "n", "f">>, <<"n", "a", "n">>,
                    <<"i", "n", "f", "i", "n", "i", "t", "y">>}
       \/ IF e = 0 THEN IsDecimal(body)
          ELSE IsDecimal(SubSeq(body, 1, e - 1)) /\ IsExponent(SubSeq(body, e + 1, Len(body)))

-----------------------------------------------------------------------------
(* serde.rs: the value as a Deserializer. A call returns the Visitor method *)
(* it ends in; LooseString is the variant Convertable of that file.         *)

\* a number parsed from a LooseString
VisitNumber(kind, num) == [visit |-> kind, neg |-> num.neg, mag |-> num.mag]

\* a faulty variant: the name and the content type change places
UploadFileMapSwapped(file) ==
    Insert(Insert(Insert(EmptyMap,
        <<"n", "a", "m", "e">>, String(file.content_type)),
        <<"c", "o", "n", "t", "e", "n", "t", "_", "t", "y", "p", "e">>, String(file.name)),
        <<"t", "e", "m", "p", "_", "f", "i", "l", "e", "_", "p", "a", "t", "h">>, String(file.temp_file_path))

\* the three fields an upload is shown as
UploadFileMap(file) ==
    Insert(Insert(Insert(EmptyMap,
        <<"n", "a", "m", "e">>, String(file.name)),
        <<"c", "o", "n", "t", "e", "n", "t", "_", "t", "y", "p", "e">>,
            String(file.content_type)),
        <<"t", "e", "m", "p", "_", "f", "i", "l", "e", "_", "p", "a", "t", "h">>,
            String(file.temp_file_path))

\* Deserializer::deserialize_any
deserialize_any(v) ==
    CASE v.t = "Object" -> [visit |-> "map", m |-> v.m]
      [] v.t = "Array" -> [visit |-> "seq", a |-> v.a]
      [] v.t = "Null" -> [visit |-> "unit"]
      [] v.t = "Bool" -> [visit |-> "bool", b |-> v.b]
      [] v.t = "String" -> [visit |-> "string", s |-> v.s]
      [] v.t = "Number" ->
            \* as_i64, then as_u64, then as_f64
            IF v.n.n = "Float" THEN [visit |-> "f64", literal |-> v.n.text]
            ELSE IF v.n.n = "NegInt" THEN [visit |-> "i64", neg |-> TRUE, mag |-> v.n.mag]
            ELSE IF MagLeq(v.n.mag, I64_MAX)
            THEN [visit |-> "i64", neg |-> FALSE, mag |-> v.n.mag]
            ELSE [visit |-> "u64", neg |-> FALSE, mag |-> v.n.mag]
      [] v.t = "XStr" ->
            IF v.s = <<"t", "r", "u", "e">> THEN [visit |-> "bool", b |-> TRUE]
            ELSE IF v.s = <<"f", "a", "l", "s", "e">> THEN [visit |-> "bool", b |-> FALSE]
            ELSE IF ParseI64(v.s).some THEN VisitNumber("i64", ParseI64(v.s).v)
            ELSE IF ParseU64(v.s).some THEN VisitNumber("u64", ParseU64(v.s).v)
            ELSE IF IsF64(v.s) THEN [visit |-> "f64", literal |-> v.s]
            ELSE [visit |-> "string", s |-> v.s]
      [] v.t = "UploadFile" -> [visit |-> "map", m |-> UploadFileMap(v)]

\* a faulty variant: the text is compared as it is written
deserialize_bool_case_sensitive(v) ==
    IF v.t = "XStr"
    THEN IF v.s \in {<<"t", "r", "u", "e">>, <<"1">>, <<"o", "n">>, <<"y", "e", "s">>}
         THEN [visit |-> "bool", b |-> TRUE]
         ELSE IF v.s \in {<<"f", "a", "l", "s", "e">>, <<"0">>, <<"o", "f", "f">>, <<"n", "o">>}
         THEN [visit |-> "bool", b |-> FALSE]
         ELSE [visit |-> "error"]
    ELSE deserialize_any(v)

\* Deserializer::deserialize_bool
deserialize_bool(v) ==
    IF v.t = "XStr"
    THEN LET l == ToLowercase(v.s) IN
         IF l \in {<<"t", "r", "u", "e">>, <<"1">>, <<"o", "n">>, <<"y", "e", "s">>}
         THEN [visit |-> "bool", b |-> TRUE]
         ELSE IF l \in {<<"f", "a", "l", "s", "e">>, <<"0">>, <<"o", "f", "f">>, <<"n", "o">>}
         THEN [visit |-> "bool", b |-> FALSE]
         ELSE [visit |-> "error"]
    ELSE deserialize_any(v)

\* Deserializer::deserialize_i8 .. deserialize_u64
deserialize_integer(signed, bits, v) ==
    IF v.t = "XStr"
    THEN IF ParseInteger(signed, bits, v.s).some
         THEN VisitNumber("integer", ParseInteger(signed, bits, v.s).v)
         ELSE [visit |-> "error"]
    ELSE deserialize_any(v)

\* a faulty variant: the empty text counts as absent
deserialize_option_empty_as_none(v) ==
    IF v.t = "Null" \/ (v.t = "XStr" /\ v.s = <<>>)
    THEN [visit |-> "none"] ELSE [visit |-> "some", v |-> v]

\* Deserializer::deserialize_option
deserialize_option(v) ==
    IF v.t = "Null" THEN [visit |-> "none"] ELSE [visit |-> "some", v |-> v]

\* forward_to_deserialize_any!: string, newtype_struct, seq, map and struct
\* destinations are all served by deserialize_any
deserialize_string(v) == deserialize_any(v)
deserialize_newtype_struct(v) == deserialize_any(v)
deserialize_seq(v) == deserialize_any(v)
deserialize_map(v) == deserialize_any(v)
deserialize_struct(v) == deserialize_any(v)

-----------------------------------------------------------------------------
(* The destinations: T of Params<T>, by the Visitor each type brings        *)

TString == [ty |-> "String"]
TBool == [ty |-> "bool"]
TOption(inner) == [ty |-> "Option", inner |-> inner]
TNewtype(inner) == [ty |-> "Newtype", inner |-> inner]
TVec(elem) == [ty |-> "Vec", elem |-> elem]
THashMap(val) == [ty |-> "HashMap", val |-> val]
TInteger(signed, bits) == [ty |-> "Integer", signed |-> signed, bits |-> bits]
\* fields: the declared fields in order, each [name |-> .., ty |-> ..]
TStruct(fields) == [ty |-> "Struct", fields |-> fields]

\* Result<T, serde::de::value::Error>; the message of the error is left out
DecodeError == [ok |-> FALSE]
Decoded(x) == [ok |-> TRUE, v |-> x]

\* T::deserialize(value): the call the type makes on the Deserializer, and what
\* its Visitor answers to the method that call ends in
RECURSIVE deserialize(_, _)
deserialize(T, v) ==
    CASE T.ty = "String" ->
            LET c == deserialize_string(v)
            IN IF c.visit = "string" THEN Decoded(c.s) ELSE DecodeError
      [] T.ty = "bool" ->
            LET c == deserialize_bool(v)
            IN IF c.visit = "bool" THEN Decoded(c.b) ELSE DecodeError
      [] T.ty = "Integer" ->
            \* the Visitor of a primitive integer takes the visit of its own type,
            \* and a visit_i64 or visit_u64 whose value its range holds
            LET c == deserialize_integer(T.signed, T.bits, v)
            IN IF \/ c.visit = "integer"
                  \/ /\ c.visit \in {"i64", "u64"}
                     /\ ~(c.neg /\ ~T.signed)
                     /\ MagLeq(c.mag, MaxMagnitude(T.signed, T.bits, c.neg))
               THEN Decoded(Number(c.neg, c.mag))
               ELSE DecodeError
      [] T.ty = "Option" ->
            IF deserialize_option(v).visit = "none" THEN Decoded(None)
            ELSE LET r == deserialize(T.inner, v)
                 IN IF r.ok THEN Decoded(Some(r.v)) ELSE DecodeError
      [] T.ty = "Newtype" ->
            \* the derived Visitor answers visit_newtype_struct and visit_seq only
            LET c == deserialize_newtype_struct(v)
            IN IF c.visit = "seq" /\ c.a # <<>>
               THEN deserialize(T.inner, c.a[1])
               ELSE DecodeError
      [] T.ty = "Vec" ->
            LET c == deserialize_seq(v)
            IN IF c.visit = "seq" /\ \A i \in 1..Len(c.a) : deserialize(T.elem, c.a[i]).ok
               THEN Decoded([i \in 1..Len(c.a) |-> deserialize(T.elem, c.a[i]).v])
               ELSE DecodeError
      [] T.ty = "HashMap" ->
            LET c == deserialize_map(v)
            IN IF c.visit = "map" /\ \A k \in DOMAIN c.m : deserialize(T.val, c.m[k]).ok
               THEN Decoded([k \in DOMAIN c.m |-> deserialize(T.val, c.m[k]).v])
               ELSE DecodeError
      [] T.ty = "Struct" ->
            LET c == deserialize_struct(v)
                F == 1..Len(T.fields)
                names == {T.fields[i].name : i \in F}
                \* visit_map: a field by its name; an absent Option field is None
                byName(i) ==
                    IF T.fields[i].name \in DOMAIN c.m
                    THEN deserialize(T.fields[i].ty, c.m[T.fields[i].name])
                    ELSE IF T.fields[i].ty.ty = "Option" THEN Decoded(None)
                    ELSE DecodeError
                \* visit_seq: a field by its position
                byPosition(i) ==
                    IF i <= Len(c.a) THEN deserialize(T.fields[i].ty, c.a[i])
                    ELSE DecodeError
                field(i) == IF c.visit = "map" THEN byName(i) ELSE byPosition(i)
                nameOf(k) == CHOOSE i \in F : T.fields[i].name = k
            IN IF c.visit \in {"map", "seq"} /\ \A i \in F : field(i).ok
               THEN Decoded([k \in names |-> field(nameOf(k)).v])
               ELSE DecodeError

-----------------------------------------------------------------------------
(* Inputs *)

\* the raw (still percent-encoded) keys of the pairs of a query string or form body
RawKeys ==
    {<<"x">>,
     <<"y">>,
     <<"x", "[", "]">>,
     <<"x", "[", "a", "]">>,
     <<"x", "[", "]", "[", "a", "]">>,
     <<"x", "[", "]", "[", "b", "]">>,
     <<"x", "[", "]", "[", "a", "]", "[", "]">>,
     <<"x", "[", "0", "]">>,
     <<"x", "[", "a", "]", "[", "b", "]">>,
     <<"x", "[">>,
     <<"[", "a", "]">>,
     <<"[", "a", "]", "[", "b", "]">>,
     <<"x", "[", "a", "]", "b">>,
     <<"x", "]">>,
     <<>>,
     <<"x", "%", "5", "B", "%", "5", "D">>}

\* the raw values of the pairs `k=v`
RawValues == {<<>>, <<"1">>}

\* the pairs between the '&' of a query string: `k=v`, a bare `k`, and the empty pair
RawPairs ==
    {k \o <<"=">> \o v : k \in RawKeys, v \in RawValues} \cup RawKeys

\* names of path parameters and multipart fields
FieldNames == {<<"x">>, <<"x", "[", "]">>, <<"x", "[", "]", "[", "a", "]">>, <<>>}

\* an uploaded file, and the empty array of a JSON part `[]`
FieldValues ==
    {UploadFile(<<"f">>, <<"t">>, <<"/", "1">>), Array(<<>>)}

\* struct { x: struct { a: String } }
NestedParams ==
    TStruct(<<[name |-> <<"x">>,
               ty |-> TStruct(<<[name |-> <<"a">>, ty |-> TString]>>)]>>)

\* struct { x: Option<Vec<Option<String>>>, y: Option<bool> }
ListParams ==
    TStruct(<<[name |-> <<"x">>, ty |-> TOption(TVec(TOption(TString)))],
              [name |-> <<"y">>, ty |-> TOption(TBool)]>>)

\* the T of Params<T>
RequestTypes == {NestedParams, ListParams}

NotDecoded == [state |-> "none"]

\* No direct call has been made.
NoCall == [call |-> "none"]
Done(T, r) == [state |-> "done", T |-> T, r |-> r]

-----------------------------------------------------------------------------
(* The request: Params::from_request folds its sources into `params` *)

Init ==
    /\ param_depth_limit = DEFAULT_PARAM_DEPTH_LIMIT
    /\ params = EmptyMap
    /\ before = EmptyMap
    /\ op = "none"
    /\ pair = <<>>
    /\ key = <<>>
    /\ value = Null
    /\ result = Ok
    /\ raised = Ok
    /\ n = 0
    /\ decoded = NotDecoded
    /\ input = NoCall
    /\ output = NoCall

\* a source is read only while no earlier one failed (every call is followed by `?`)
Running == result = Ok /\ decoded = NotDecoded /\ n < MaxPairs

\* QueryParser::parse_nested_query_into: one turn of `for pair in qs.split('&')`
ParsePair(p) ==
    /\ Running
    /\ pair' = p
    /\ LET kv == KeyValue(p)
           r == _normalize_params(param_depth_limit, params, kv.key, xstr_opt(kv.value), 0)
       IN IF p = <<>>
          THEN /\ params' = params
               /\ key' = <<>>
               /\ value' = Null
               /\ result' = Ok
               /\ raised' = Ok
          ELSE /\ params' = r.params
               /\ key' = kv.key
               /\ value' = xstr_opt(kv.value)
               /\ result' = r.err
               /\ raised' = r.raised
    /\ before' = params
    /\ op' = "pair"
    /\ n' = n + 1
    /\ UNCHANGED <<param_depth_limit, decoded, input, output>>

\* QueryParser::parse_nested_value
ParseNestedValue(name, v) ==
    /\ Running
    /\ LET r == _normalize_params(param_depth_limit, params, name, v, 0)
       IN IF name = <<>>
          THEN params' = params /\ result' = Ok /\ raised' = Ok
          ELSE params' = r.params /\ result' = r.err /\ raised' = r.raised
    /\ before' = params
    /\ pair' = <<>>
    /\ key' = name
    /\ value' = v
    /\ op' = "value"
    /\ n' = n + 1
    /\ UNCHANGED <<param_depth_limit, decoded, input, output>>

\* the last step of from_request: T::deserialize(Value::Object(merged_params))
Deserialize(T) ==
    /\ result = Ok
    /\ decoded = NotDecoded
    /\ decoded' = Done(T, deserialize(T, Object(params)))
    /\ op' = "decode"
    /\ UNCHANGED <<param_depth_limit, params, before, pair, key, value, result, raised, n, input, output>>

Next ==
    \/ \E p \in RawPairs : ParsePair(p)
    \/ \E name \in FieldNames, v \in FieldValues : ParseNestedValue(name, v)
    \/ \E T \in RequestTypes : Deserialize(T)

Spec == Init /\ [][Next]_vars

-----------------------------------------------------------------------------
(* The depth limit: QueryParser::new(Some(limit)).parse_nested_query(qs)    *)

\* `[a]` repeated segs times
RECURSIVE Nested(_)
Nested(segs) == IF segs = 0 THEN <<>> ELSE <<"[", "a", "]">> \o Nested(segs - 1)

InitDepth ==
    /\ param_depth_limit \in 1..MaxLimit
    /\ params = EmptyMap
    /\ before = EmptyMap
    /\ op = "none"
    /\ pair = <<>>
    /\ key = <<>>
    /\ value = Null
    /\ result = Ok
    /\ raised = Ok
    /\ n = 0
    /\ decoded = NotDecoded
    /\ input = NoCall
    /\ output = NoCall

\* what follows the key in the query string: nothing, `=` or `=b`
Tails == {<<>>, <<"=">>, <<"=", "b">>}

\* QueryParser::parse_nested_query on `foo[a]...[a]=b`: a new map, returned on Ok only
ParseNestedQuery(segs, tail) ==
    /\ op = "none"
    /\ LET qs == <<"f", "o", "o">> \o Nested(segs) \o tail
           kv == KeyValue(qs)
           r == _normalize_params(param_depth_limit, EmptyMap, kv.key, xstr_opt(kv.value), 0)
       IN /\ pair' = qs
          /\ key' = kv.key
          /\ value' = xstr_opt(kv.value)
          /\ params' = IF r.err = Ok THEN r.params ELSE EmptyMap
          /\ result' = r.err
          /\ raised' = r.raised
    /\ before' = EmptyMap
    /\ op' = "query"
    /\ n' = 1
    /\ UNCHANGED <<param_depth_limit, decoded, input, output>>

NextDepth ==
    \E segs \in 0..(param_depth_limit + 1), tail \in Tails : ParseNestedQuery(segs, tail)

SpecDepth == InitDepth /\ [][NextDepth]_vars

-----------------------------------------------------------------------------
(* The decoder alone: one LooseString handed to a destination               *)

TextAlphabet == {"t", "r", "u", "e", "1", "."}

RECURSIVE TextsOfLen(_)
TextsOfLen(len) ==
    IF len = 0 THEN {<<>>}
    ELSE {Append(t, c) : t \in TextsOfLen(len - 1), c \in TextAlphabet}

\* texts the alphabet does not reach
ExtraTexts ==
    {<<"2", ".", "0">>,
     <<"1", "2", "3", "4", "5", "6", "7", "8", "9", "0">>,
     <<"-", "1">>,
     <<"f", "a", "l", "s", "e">>,
     <<"T", "R", "U", "E">>,
     <<"o", "n">>,
     <<"h", "i">>,
     I64_MIN_MAGNITUDE,
     U64_MAX \o <<"0">>,
     \* around the ends of the integer ranges, and other spellings of a number
     <<"4", "2">>,
     <<"3", "0", "0">>,
     <<"2", "5", "5">>,
     <<"2", "5", "6">>,
     <<"1", "2", "7">>,
     <<"1", "2", "8">>,
     <<"-", "1", "2", "8">>,
     <<"-", "1", "2", "9">>,
     <<"2", "1", "4", "7", "4", "8", "3", "6", "4", "7">>,
     <<"2", "1", "4", "7", "4", "8", "3", "6", "4", "8">>,
     <<"-", "2", "1", "4", "7", "4", "8", "3", "6", "4", "8">>,
     <<"+", "5">>,
     <<"0", "0", "7">>,
     <<"-", "0">>,
     <<"1", "e", "2">>,
     <<" ", "1">>, U64_MAX}

Texts == UNION {TextsOfLen(len) : len \in 0..MaxTextLen} \cup ExtraTexts

\* String, struct OrderId(String), bool
LeafTypes == {TString, TNewtype(TString), TBool}

\* i8, i16, i32, i64, u8, u16, u32, u64
IntegerTypes == {TInteger(signed, bits) : signed \in BOOLEAN, bits \in {8, 16, 32, 64}}

\* struct { name: String, content_type: String, temp_file_path: String }
UploadFileFields ==
    TStruct(<<[name |-> <<"n", "a", "m", "e">>, ty |-> TString],
              [name |-> <<"c", "o", "n", "t", "e", "n", "t", "_", "t", "y", "p", "e">>, ty |-> TString],
              [name |-> <<"t", "e", "m", "p", "_", "f", "i", "l", "e", "_", "p", "a", "t", "h">>, ty |-> TString]>>)

\* Option<String>, Option<bool>, Option<i32>, the struct of an upload, HashMap<String, String>
WrapperTypes ==
    {TOption(TString), TOption(TBool), TOption(TInteger(TRUE, 32)), UploadFileFields,
     THashMap(TString)}

InitDecode ==
    /\ value \in {XStr(s) : s \in Texts} \cup FieldValues \cup {Null}
    /\ param_depth_limit = DEFAULT_PARAM_DEPTH_LIMIT
    /\ params = EmptyMap
    /\ before = EmptyMap
    /\ op = "none"
    /\ pair = <<>>
    /\ key = <<>>
    /\ result = Ok
    /\ raised = Ok
    /\ n = 0
    /\ decoded = NotDecoded
    /\ input = NoCall
    /\ output = NoCall

\* T::deserialize(value)
DecodeValue(T) ==
    /\ op = "none"
    /\ decoded' = Done(T, deserialize(T, value))
    /\ op' = "decode"
    /\ UNCHANGED <<param_depth_limit, params, before, pair, key, value, result, raised, n, input, output>>

\* the value as the field x of a struct { x: T }
DecodeField(T) ==
    /\ op = "none"
    /\ params' = Insert(EmptyMap, <<"x">>, value)
    /\ decoded' = Done(TStruct(<<[name |-> <<"x">>, ty |-> T]>>),
                       deserialize(TStruct(<<[name |-> <<"x">>, ty |-> T]>>), Object(params')))
    /\ op' = "decode"
    /\ UNCHANGED <<param_depth_limit, before, pair, key, value, result, raised, n, input, output>>

\* the value as the entry x of a HashMap<String, T>
DecodeMapValue(T) ==
    /\ op = "none"
    /\ params' = Insert(EmptyMap, <<"x">>, value)
    /\ decoded' = Done(THashMap(T), deserialize(THashMap(T), Object(params')))
    /\ op' = "decode"
    /\ UNCHANGED <<param_depth_limit, before, pair, key, value, result, raised, n, input, output>>

NextDecode ==
    \/ \E T \in LeafTypes \cup IntegerTypes \cup WrapperTypes : DecodeValue(T)
    \/ \E T \in LeafTypes : DecodeField(T)
    \/ \E T \in LeafTypes : DecodeMapValue(T)

SpecDecode == InitDecode /\ [][NextDecode]_vars

-----------------------------------------------------------------------------
(* Numbers.  N is PosInt(u64), NegInt(i64) or Float(f64); an integer is kept *)
(* as the digits of its magnitude, a float as the text of its literal.       *)

PosInt(mag) == [n |-> "PosInt", mag |-> mag]
NegInt(mag) == [n |-> "NegInt", mag |-> mag]
Float(text) == [n |-> "Float", text |-> text]

\* Value::Number
NumberValue(num) == [t |-> "Number", n |-> num]

-----------------------------------------------------------------------------
(* Value::merge and Value::merge_into *)

\* Ok(v) of a Result
OkValue(v) == [kind |-> "Ok", v |-> v]

\* Error::MergeError("Cannot merge {a} with {b}")
MergeError(a, b) == [kind |-> "MergeError", a |-> a, b |-> b]

\* a faulty variant: the entries of the receiver survive a collision
ExtendKeepingOld(a, b) ==
    [x \in (DOMAIN a) \cup (DOMAIN b) |-> IF x \in DOMAIN a THEN a[x] ELSE b[x]]

\* HashMap::extend: the entries of b are inserted into a
Extend(a, b) ==
    [x \in (DOMAIN a) \cup (DOMAIN b) |-> IF x \in DOMAIN b THEN b[x] ELSE a[x]]

\* a faulty variant: an array receiver takes the other value at its front
merge_pushing_front(self, other) ==
    IF self.t = "Object" /\ other.t = "Object"
    THEN OkValue(Object(Extend(self.m, other.m)))
    ELSE IF self.t = "Array" /\ other.t = "Array"
    THEN OkValue(Array(self.a \o other.a))
    ELSE IF self.t = "Array"
    THEN OkValue(Array(<<other>> \o self.a))
    ELSE IF other.t = "Array"
    THEN OkValue(Array(<<self>> \o other.a))
    ELSE IF self.t = "Null"
    THEN OkValue(other)
    ELSE IF other.t = "Null"
    THEN OkValue(self)
    ELSE MergeError(type_name(self), type_name(other))

\* Value::merge: the arms of the match, in their order
merge(self, other) ==
    IF self.t = "Object" /\ other.t = "Object"
    THEN OkValue(Object(Extend(self.m, other.m)))
    ELSE IF self.t = "Array" /\ other.t = "Array"
    THEN OkValue(Array(self.a \o other.a))
    ELSE IF self.t = "Array"
    THEN OkValue(Array(Append(self.a, other)))
    ELSE IF other.t = "Array"
    THEN OkValue(Array(<<self>> \o other.a))
    ELSE IF self.t = "Null"
    THEN OkValue(other)
    ELSE IF other.t = "Null"
    THEN OkValue(self)
    ELSE MergeError(type_name(self), type_name(other))

\* a faulty variant: two Objects that collide are united
merge_into_uniting(self, a) ==
    IF self.t = "Object"
    THEN OkValue([x \in (DOMAIN a) \cup (DOMAIN self.m) |->
            IF x \notin DOMAIN self.m THEN a[x]
            ELSE IF x \in DOMAIN a /\ a[x].t = "Object" /\ self.m[x].t = "Object"
            THEN Object(Extend(a[x].m, self.m[x].m))
            ELSE self.m[x]])
    ELSE MergeError(type_name(self), "object")

\* a faulty variant: on a collision the entry of the map survives
merge_into_keeping_existing(self, a) ==
    IF self.t = "Object"
    THEN OkValue(Extend(self.m, a))
    ELSE MergeError(type_name(self), "object")

\* Value::merge_into: Ok(a) of the map, or the error
merge_into(self, a) ==
    IF self.t = "Object"
    THEN OkValue(Extend(a, self.m))
    ELSE MergeError(type_name(self), "object")

\* the values the two operations are called with
MergeValues ==
    { Null, Bool(TRUE), NumberValue(PosInt(<<"1">>)), String(<<"a">>), XStr(<<"a">>),
      Object(EmptyMap),
      Object(Insert(EmptyMap, <<"x">>, XStr(<<"1">>))),
      Object(Insert(Insert(EmptyMap, <<"x">>, String(<<"2">>)), <<"y">>, Null)),
      Array(<<>>), Array(<<XStr(<<"1">>)>>), Array(<<Null, Bool(FALSE)>>),
      UploadFile(<<"f">>, None, <<"p">>) }

\* the maps merge_into is called with: what the path and the query left
MergeMaps == {v.m : v \in {w \in MergeValues : w.t = "Object"}}

\* a.merge(b)
Merge(a, b) ==
    /\ input = NoCall
    /\ input' = [call |-> "merge", self |-> a, other |-> b]
    /\ output' = merge(a, b)
    /\ UNCHANGED <<param_depth_limit, params, before, op, pair, key, value, result, raised, n,
                   decoded>>

\* value.merge_into(merged_params)
MergeInto(source, existing) ==
    /\ input = NoCall
    /\ input' = [call |-> "merge_into", self |-> source, a |-> existing]
    /\ output' = merge_into(source, existing)
    /\ UNCHANGED <<param_depth_limit, params, before, op, pair, key, value, result, raised, n,
                   decoded>>

NextMerge ==
    \/ \E a \in MergeValues, b \in MergeValues : Merge(a, b)
    \/ \E source \in MergeValues, existing \in MergeMaps : MergeInto(source, existing)

SpecMerge == Init /\ [][NextMerge]_vars

-----------------------------------------------------------------------------
(* json.rs: the conversion of the scalar events *)

\* JsonError::SyntaxError(msg), JsonError::NoMoreInput
SyntaxError(msg) == [kind |-> "SyntaxError", msg |-> msg]
NoMoreInput == [kind |-> "NoMoreInput"]

\* the character of a code point
CharOf(cp) == IF cp < 128 THEN Chr(cp) ELSE "U+" \o ToString(cp)

\* unescape_json_string: Ok(text) or the SyntaxError
RECURSIVE unescape_json_string(_)
unescape_json_string(s) ==
    LET push(c, r) == IF r.kind = "Ok" THEN OkValue(c \o r.v) ELSE r
        after(k) == unescape_json_string(SubSeq(s, k + 1, Len(s)))
        code == SubSeq(s, 3, 6)
        \* u32::from_str_radix(code, 16): hex digits after an optional '+'
        digits == IF code[1] = "+" THEN Tail(code) ELSE code
        radix16 == \A i \in 1..Len(digits) : IsHex(digits[i])
        RECURSIVE from_digits(_)
        from_digits(d) == IF d = <<>> THEN 0
                    ELSE 16 * from_digits(SubSeq(d, 1, Len(d) - 1)) + HexVal(d[Len(d)])
    IN IF s = <<>> THEN OkValue(<<>>)
       ELSE IF s[1] # "\\" THEN push(<<s[1]>>, after(1))
       ELSE IF Len(s) = 1 THEN OkValue(<<"\\">>)
       ELSE CASE s[2] = "\"" -> push(<<"\"">>, after(2))
              [] s[2] = "\\" -> push(<<"\\">>, after(2))
              [] s[2] = "/" -> push(<<"/">>, after(2))
              [] s[2] = "b" -> push(<<Chr(8)>>, after(2))
              [] s[2] = "f" -> push(<<Chr(12)>>, after(2))
              [] s[2] = "n" -> push(<<Chr(10)>>, after(2))
              [] s[2] = "r" -> push(<<Chr(13)>>, after(2))
              [] s[2] = "t" -> push(<<Chr(9)>>, after(2))
              [] s[2] = "u" ->
                    IF Len(s) < 6 THEN SyntaxError("Missing hex digits")
                    ELSE IF ~radix16 THEN SyntaxError("Invalid hex digits")
                    \* char::from_u32 is None for the surrogates
                    ELSE IF from_digits(digits) >= 55296 /\ from_digits(digits) <= 57343
                    THEN SyntaxError("Invalid Unicode")
                    ELSE push(<<CharOf(from_digits(digits))>>, after(6))
              [] OTHER -> push(<<"\\", s[2]>>, after(2))

\* a faulty variant: the sign is dropped
NumberFromI64Unsigned(num) == PosInt(num.mag)

\* Number::from(v: i64), of the number ParseI64 returned
NumberFromI64(num) == IF num.neg THEN NegInt(num.mag) ELSE PosInt(num.mag)

\* an event of the tokenizer with the text current_str() returns for it
Event(ev, str) == [ev |-> ev, str |-> str]

\* json_event_to_value: Ok(value), the SyntaxError, or the panic of an unwrap
json_event_to_value(event) ==
    CASE event.ev = "ValueString" ->
            LET r == unescape_json_string(event.str)
            IN IF r.kind = "Ok" THEN OkValue(String(r.v)) ELSE r
      [] event.ev = "ValueInt" ->
            IF ParseI64(event.str).some
            THEN OkValue(NumberValue(NumberFromI64(ParseI64(event.str).v)))
            ELSE Panic
      [] event.ev = "ValueFloat" ->
            IF IsF64(event.str) THEN OkValue(NumberValue(Float(event.str))) ELSE Panic
      [] event.ev = "ValueTrue" -> OkValue(Bool(TRUE))
      [] event.ev = "ValueFalse" -> OkValue(Bool(FALSE))
      [] event.ev = "ValueNull" -> OkValue(Null)
      [] OTHER -> SyntaxError("Unexpected JSON event in parsing value")

\* value.rs, event_to_params_value: the conversion of the parse_json of value.rs
event_to_params_value(event) ==
    CASE event.ev = "ValueString" -> XStr(event.str)
      [] event.ev = "ValueInt" ->
            IF ParseI64(event.str).some
            THEN NumberValue(NumberFromI64(ParseI64(event.str).v))
            ELSE Panic
      [] event.ev = "ValueFloat" ->
            IF IsF64(event.str) THEN NumberValue(Float(event.str)) ELSE Panic
      [] event.ev = "ValueTrue" -> XStr(<<"t", "r", "u", "e">>)
      [] event.ev = "ValueFalse" -> XStr(<<"f", "a", "l", "s", "e">>)
      [] event.ev = "ValueNull" -> Null
      [] OTHER -> Panic

-----------------------------------------------------------------------------
(* The tokenizer behind parser.next_event().  A document is the sequence of  *)
(* its lexemes: the four brackets, the text between the quotes of a string,  *)
(* and the text of a bare literal; the commas and colons between them are    *)
(* in place.  The tokenizer reports the events of the longest legal prefix   *)
(* and then an error, or the end of the input.                                *)

Lx(kind, text) == [lx |-> kind, text |-> text]

\* the text is a JSON integer: an optional '-', then 0 or digits without a leading 0
IsJsonInt(s) ==
    LET body == IF s # <<>> /\ s[1] = "-" THEN Tail(s) ELSE s
    IN IsDigits(body) /\ (Len(body) = 1 \/ body[1] # "0")

\* the text is a JSON number with a fraction, an exponent or both
IsJsonFloat(s) ==
    LET e == Find(ToLowercase(s), "e")
        mant == IF e = 0 THEN s ELSE SubSeq(s, 1, e - 1)
        exp == SubSeq(s, e + 1, Len(s))
        dot == Find(mant, ".")
        int == IF dot = 0 THEN mant ELSE SubSeq(mant, 1, dot - 1)
    IN /\ e # 0 \/ dot # 0
       /\ IsJsonInt(int)
       /\ dot # 0 => IsDigits(SubSeq(mant, dot + 1, Len(mant)))
       /\ e # 0 => IsExponent(exp)

\* a faulty variant: whatever follows a backslash is let through
IsJsonStringLenient(s) == \A i \in 1..Len(s) : s[i] \notin {Chr(b) : b \in 0..31}

\* the text between two quotes is a legal JSON string body: no control
\* character, no bare quote, and only the escapes of the grammar
RECURSIVE IsJsonString(_)
IsJsonString(s) ==
    IF s = <<>> THEN TRUE
    ELSE IF s[1] = "\\"
    THEN /\ Len(s) >= 2
         /\ s[2] \in {"\"", "\\", "/", "b", "f", "n", "r", "t", "u"}
         /\ IF s[2] = "u"
            THEN /\ Len(s) >= 6
                 /\ \A i \in 3..6 : IsHex(s[i])
                 /\ IsJsonString(SubSeq(s, 7, Len(s)))
            ELSE IsJsonString(SubSeq(s, 3, Len(s)))
    ELSE /\ s[1] # "\""
         /\ s[1] \notin {Chr(b) : b \in 0..31}
         /\ IsJsonString(Tail(s))

\* the events of a document: modes is the stack of open containers, st is
\* "value" where a value (or the end of an array) may come, "member" where a
\* value must follow a field name, "key" where a field name or the end of the
\* object may come, "done" after the root.  A streaming tokenizer starts over
\* after a root; the other one accepts nothing more.
RECURSIVE Tokenize(_, _, _, _)
Tokenize(doc, modes, st, streaming) ==
    LET x == Head(doc)
        error == [events |-> <<>>, err |-> TRUE]
        top == IF modes = <<>> THEN "" ELSE modes[Len(modes)]
        under(m) == IF m = <<>> THEN "done" ELSE IF m[Len(m)] = "{" THEN "key" ELSE "value"
        emit(e, m, s) == LET r == Tokenize(Tail(doc), m, s, streaming)
                         IN [events |-> <<e>> \o r.events, err |-> r.err]
        popped == SubSeq(modes, 1, Len(modes) - 1)
        scalar(ev) == emit(Event(ev, x.text), modes, under(modes))
    IN IF doc = <<>>
       THEN [events |-> <<>>, err |-> st # "done"]
       ELSE IF st = "done"
       THEN IF streaming THEN Tokenize(doc, modes, "value", streaming) ELSE error
       ELSE IF st = "key"
       THEN IF x.lx = "str" /\ IsJsonString(x.text)
            THEN emit(Event("FieldName", x.text), modes, "member")
            ELSE IF x.lx = "}" THEN emit(Event("EndObject", <<>>), popped, under(popped))
            ELSE error
       ELSE CASE x.lx = "{" -> emit(Event("StartObject", <<>>), Append(modes, "{"), "key")
              [] x.lx = "[" -> emit(Event("StartArray", <<>>), Append(modes, "["), "value")
              [] x.lx = "]" /\ st = "value" /\ top = "[" ->
                    emit(Event("EndArray", <<>>), popped, under(popped))
              [] x.lx = "str" /\ IsJsonString(x.text) -> scalar("ValueString")
              [] x.lx = "lit" /\ IsJsonInt(x.text) -> scalar("ValueInt")
              [] x.lx = "lit" /\ IsJsonFloat(x.text) -> scalar("ValueFloat")
              [] x.lx = "lit" /\ x.text = <<"t", "r", "u", "e">> -> scalar("ValueTrue")
              [] x.lx = "lit" /\ x.text = <<"f", "a", "l", "s", "e">> -> scalar("ValueFalse")
              [] x.lx = "lit" /\ x.text = <<"n", "u", "l", "l">> -> scalar("ValueNull")
              [] OTHER -> error

\* a faulty variant: the parser is built in streaming mode
next_events_streaming(doc) == Tokenize(doc, <<>>, "value", TRUE)

\* JsonParser::new(feeder) and its next_event() calls
next_events(doc) == Tokenize(doc, <<>>, "value", FALSE)

-----------------------------------------------------------------------------
(* json.rs: parse_json *)

\* the loop of parse_json over the events that are left; err tells that
\* next_event() fails after them
RECURSIVE ParseLoop(_, _, _, _, _)
ParseLoop(events, err, stack, root, current_key) ==
    LET event == Head(events)
        rest == Tail(events)
        v == stack[Len(stack)]
        below == SubSeq(stack, 1, Len(stack) - 1)
        \* stack.last_mut() after the pop, and with the top frame's value replaced
        top == below[Len(below)]
        onto(w) == [below EXCEPT ![Len(below)] = [key |-> top.key, v |-> w]]
        last == stack[Len(stack)]
        into(w) == [stack EXCEPT ![Len(stack)] = [key |-> last.key, v |-> w]]
        scalar == json_event_to_value(event)
    IN IF events = <<>>
       THEN IF err THEN SyntaxError("parse error")
            ELSE IF root.some THEN OkValue(root.v) ELSE NoMoreInput
       ELSE IF event.ev \in {"StartObject", "StartArray"}
       THEN ParseLoop(rest, err,
                      Append(stack, [key |-> current_key,
                                     v |-> IF event.ev = "StartObject"
                                           THEN Object(EmptyMap) ELSE Array(<<>>)]),
                      root, None)
       ELSE IF event.ev \in {"EndObject", "EndArray"}
       THEN IF stack = <<>> THEN Panic
            ELSE IF below # <<>>
            THEN CASE top.v.t = "Object" ->
                        ParseLoop(rest, err,
                                  IF v.key.some
                                  THEN onto(Object(Insert(top.v.m, v.key.v, v.v)))
                                  ELSE below,
                                  root, current_key)
                   [] top.v.t = "Array" ->
                        ParseLoop(rest, err, onto(Array(Append(top.v.a, v.v))),
                                  root, current_key)
                   [] OTHER -> SyntaxError("Invalid JSON array end")
            ELSE ParseLoop(rest, err, below, Some(v.v), current_key)
       ELSE IF event.ev = "FieldName"
       THEN ParseLoop(rest, err, stack, root, Some(event.str))
       ELSE IF scalar.kind # "Ok" THEN scalar
       ELSE IF stack # <<>>
       THEN CASE last.v.t = "Array" ->
                    ParseLoop(rest, err, into(Array(Append(last.v.a, scalar.v))),
                              root, current_key)
              [] last.v.t = "Object" ->
                    IF current_key.some
                    THEN ParseLoop(rest, err,
                                   into(Object(Insert(last.v.m, current_key.v, scalar.v))),
                                   root, None)
                    ELSE SyntaxError("Invalid JSON object key")
              [] OTHER -> SyntaxError("Unexpected JSON value in " \o type_name(last.v))
       ELSE IF ~root.some
       THEN ParseLoop(rest, err, stack, Some(scalar.v), current_key)
       ELSE SyntaxError("Unexpected JSON value")

\* parse_json: Ok(root), a JsonError, or the panic
parse_json(doc) ==
    ParseLoop(next_events(doc).events, next_events(doc).err, <<>>, None, None)

-----------------------------------------------------------------------------
(* The documents parse_json is called with *)

MaxTokens == 4

\* string bodies: plain, every escape of the grammar, and broken escapes
JsonStrings ==
    { Lx("str", <<"a">>),
      Lx("str", <<"a", "\\", "n", "b">>),
      Lx("str", <<"\\", "\"", "\\", "\\", "\\", "/">>),
      Lx("str", <<"A">>),
      Lx("str", <<"U+233">>),
      Lx("str", <<"\\", "z">>),
      Lx("str", <<"\\">>),
      Lx("str", <<"\\", "u", "4", "1">>),
      Lx("str", <<"\\", "u", "Z", "Z", "Z", "Z">>),
      Lx("str", <<"\\", "u", "+", "0", "4", "1">>),
      Lx("str", <<"\\", "u", "d", "8", "3", "d">>) }

\* bare literals: integers, the ends of the i64 and u64 ranges, numbers with
\* a fraction or an exponent, the three names, and two texts that are no literal
JsonLiterals ==
    { Lx("lit", <<"0">>),
      Lx("lit", <<"4", "2">>),
      Lx("lit", <<"-", "1">>),
      Lx("lit", <<"-", "0">>),
      Lx("lit", <<"1", ".", "0">>),
      Lx("lit", <<"-", "0", ".", "0">>),
      Lx("lit", <<"1", "e", "2">>),
      Lx("lit", <<"-", "9", "0", "0", "7", "1", "9", "9", "2", "5", "4", "7", "4", "0", "9", "9", "1">>),
      Lx("lit", <<"t", "r", "u">>),
      Lx("lit", <<"0", "1">>),
      Lx("lit", I64_MAX), Lx("lit", I64_MIN_MAGNITUDE), Lx("lit", U64_MAX),
      Lx("lit", <<"-">> \o I64_MIN_MAGNITUDE),
      Lx("lit", <<"t", "r", "u", "e">>), Lx("lit", <<"f", "a", "l", "s", "e">>),
      Lx("lit", <<"n", "u", "l", "l">>) }

\* the lexemes the nesting is built from
JsonStructure ==
    { Lx("{", <<>>), Lx("}", <<>>), Lx("[", <<>>), Lx("]", <<>>),
      Lx("str", <<"k">>), Lx("lit", <<"1">>) }

\* every sequence of at most MaxTokens structural lexemes, and every scalar
\* alone, in an array, as a member of an object, and after a completed root
JsonDocs ==
    UNION {[1..len -> JsonStructure] : len \in 1..MaxTokens}
    \cup UNION {{ <<x>>,
                  <<Lx("[", <<>>), x, Lx("]", <<>>)>>,
                  <<Lx("{", <<>>), Lx("str", <<"k">>), x, Lx("}", <<>>)>>,
                  <<Lx("[", <<>>), Lx("]", <<>>), x>> }
                : x \in JsonStrings \cup JsonLiterals}

\* parse_json(SliceJsonFeeder::new(bytes))
ParseJson(doc) ==
    /\ input = NoCall
    /\ input' = [call |-> "parse_json", doc |-> doc]
    /\ output' = parse_json(doc)
    /\ UNCHANGED <<param_depth_limit, params, before, op, pair, key, value, result, raised, n,
                   decoded>>

\* event_to_params_value(&event, &parser), for the event of a scalar lexeme
EventToParamsValue(x) ==
    /\ input = NoCall
    /\ next_events(<<x>>).events # <<>>
    /\ input' = [call |-> "event_to_params_value", event |-> next_events(<<x>>).events[1]]
    /\ output' = event_to_params_value(next_events(<<x>>).events[1])
    /\ UNCHANGED <<param_depth_limit, params, before, op, pair, key, value, result, raised, n,
                   decoded>>

NextJson ==
    \/ \E doc \in JsonDocs : ParseJson(doc)
    \/ \E x \in JsonStrings \cup JsonLiterals : EventToParamsValue(x)

SpecJson == Init /\ [][NextJson]_vars

-----------------------------------------------------------------------------
(* Params::from_request as a whole: the path parameters, then the pairs of  *)
(* the query string, then a JSON body, then the decoding of the tree.  The  *)
(* request is kept in `input`, and n counts the source items already read.  *)

MaxRounds == 2

Request(path, query, body) ==
    [call |-> "from_request", path |-> path, query |-> query, body |-> body]

\* the child paths of the leaves id, y[a], y[b], z[id], z[w]
LeafPaths ==
    <<<<"[", "i", "d", "]">>, <<"[", "y", "]", "[", "a", "]">>, <<"[", "y", "]", "[", "b", "]">>, <<"[", "z", "]", "[", "i", "d", "]">>, <<"[", "z", "]", "[", "w", "]">>>>

\* the five leaves under `x[]` in the order perm, sent MaxRounds times; the
\* value of a leaf is the digit of its round
RepeatedQuery(perm) ==
    [i \in 1..(5 * MaxRounds) |->
        <<"x", "[", "]">> \o LeafPaths[perm[((i - 1) % 5) + 1]] \o <<"=", Digits[((i - 1) \div 5) + 2]>>]

\* query strings, by their pairs: the leaves in every order, child paths that
\* meet a text or hold `[]`, values with '=', keys that begin with a
\* character of two bytes or with '[', and encoded separators
Queries ==
    {RepeatedQuery(perm) :
        perm \in {f \in [1..5 -> 1..5] : \A i, j \in 1..5 : f[i] = f[j] => i = j}}
    \cup {<<<<"x", "[", "]", "[", "y", "]", "=", "1">>, <<"x", "[", "]", "[", "y", "]", "[", "a", "]", "=", "2">>>>,
          <<<<"x", "[", "]", "[", "y", "]", "[", "]", "=", "1">>, <<"x", "[", "]", "[", "y", "]", "[", "]", "=", "2">>>>,
          <<<<"x", "[", "]", "[", "y", "]", "[", "a", "]", "=", "1">>, <<"x", "[", "]", "[", "y", "]", "=", "2">>>>,
          <<<<"y", "=", "1", "=", "1">>>>, <<<<"y", "=", "=">>>>, <<<<"y", "=", "a", "%", "3", "D", "b">>>>,
          <<<<"%", "C", "3", "%", "A", "9", "=", "1">>>>, <<<<"%", "C", "3", "%", "A", "9", "[", "a", "]", "=", "1">>>>, <<<<"a", "%", "C", "3", "%", "A", "9", "[", "a", "]", "=", "1">>>>, <<<<"[", "a", "]", "=", "1">>>>,
          <<<<"x", "%", "3", "D", "1", "=", "b">>, <<"y", "=", "q", "%", "3", "D", "2">>>>, <<<<"y", "=", "a", "%", "2", "6", "b">>>>}

\* path parameters (name, text), short query strings and JSON bodies that
\* meet in one request
PathParams == {<<>>, <<<<<<"y">>, <<"p">>>>>>, <<<<<<"y">>, <<"p">>>>, <<<<"i">>, <<"p">>>>>>}

ShortQueries == {<<>>, <<<<"y", "=", "q">>>>, <<<<"y", "=", "q">>, <<"k", "=", "q">>>>, <<<<"x", "[", "a", "]", "=", "q">>>>, <<<<"x", "[", "a", "]", "=", "q">>, <<"y", "=", "q">>>>}

Bodies ==
    {None,
     Some(<<Lx("{", <<>>), Lx("str", <<"y">>), Lx("str", <<"b">>), Lx("}", <<>>)>>),
     Some(<<Lx("{", <<>>), Lx("str", <<"y">>), Lx("str", <<"b">>), Lx("str", <<"j">>), Lx("str", <<"b">>), Lx("}", <<>>)>>),
     Some(<<Lx("{", <<>>), Lx("str", <<"x">>), Lx("{", <<>>), Lx("str", <<"b">>), Lx("lit", <<"1">>), Lx("}", <<>>), Lx("}", <<>>)>>),
     Some(<<Lx("{", <<>>), Lx("str", <<"x", "%", "3", "D", "1">>), Lx("str", <<"b">>), Lx("str", <<"y">>), Lx("str", <<"q", "%", "3", "D", "2">>), Lx("}", <<>>)>>),
     Some(<<Lx("{", <<>>), Lx("str", <<"x", "[", "a", "]">>), Lx("str", <<"b">>), Lx("}", <<>>)>>),
     Some(<<Lx("[", <<>>), Lx("]", <<>>)>>),
     Some(<<Lx("{", <<>>), Lx("str", <<"y">>)>>)}

Requests ==
    {Request(<<>>, q, None) : q \in Queries}
    \cup {Request(p, q, b) : p \in PathParams, q \in ShortQueries, b \in Bodies}

\* struct { y: Option<String>, i: Option<String>, k: Option<String>, j: Option<String> }
SourceParams ==
    TStruct(<<[name |-> <<"y">>, ty |-> TOption(TString)],
              [name |-> <<"i">>, ty |-> TOption(TString)],
              [name |-> <<"k">>, ty |-> TOption(TString)],
              [name |-> <<"j">>, ty |-> TOption(TString)]>>)

InitRequest ==
    /\ input \in Requests
    /\ param_depth_limit = DEFAULT_PARAM_DEPTH_LIMIT
    /\ params = EmptyMap
    /\ before = EmptyMap
    /\ op = "none"
    /\ pair = <<>>
    /\ key = <<>>
    /\ value = Null
    /\ result = Ok
    /\ raised = Ok
    /\ n = 0
    /\ decoded = NotDecoded
    /\ output = NoCall

\* one turn of `for (key, value) in params` over the path parameters
PathParameter ==
    /\ result = Ok /\ decoded = NotDecoded
    /\ n < Len(input.path)
    /\ LET name == input.path[n + 1][1]
           v == xstr(input.path[n + 1][2])
           r == _normalize_params(param_depth_limit, params, name, v, 0)
       IN /\ IF name = <<>>
             THEN params' = params /\ result' = Ok /\ raised' = Ok
             ELSE params' = r.params /\ result' = r.err /\ raised' = r.raised
          /\ key' = name
          /\ value' = v
    /\ before' = params
    /\ pair' = <<>>
    /\ op' = "path"
    /\ n' = n + 1
    /\ UNCHANGED <<param_depth_limit, decoded, input, output>>

\* one turn of the loop of parse_nested_query_into over the query string
QueryPair ==
    /\ result = Ok /\ decoded = NotDecoded
    /\ n >= Len(input.path) /\ n < Len(input.path) + Len(input.query)
    /\ LET p == input.query[n - Len(input.path) + 1]
           kv == KeyValue(p)
           r == _normalize_params(param_depth_limit, params, kv.key, xstr_opt(kv.value), 0)
       IN /\ pair' = p
          /\ params' = r.params
          /\ key' = kv.key
          /\ value' = xstr_opt(kv.value)
          /\ result' = r.err
          /\ raised' = r.raised
    /\ before' = params
    /\ op' = "pair"
    /\ n' = n + 1
    /\ UNCHANGED <<param_depth_limit, decoded, input, output>>

\* the application/json branch: parse_json, then value.merge_into(merged_params)
JsonBody ==
    /\ result = Ok /\ decoded = NotDecoded
    /\ n = Len(input.path) + Len(input.query)
    /\ input.body.some
    /\ LET parsed == parse_json(input.body.v)
           merged == merge_into(parsed.v, params)
       IN IF parsed.kind # "Ok"
          THEN params' = params /\ result' = parsed /\ value' = Null
          ELSE IF merged.kind # "Ok"
          THEN params' = params /\ result' = merged /\ value' = parsed.v
          ELSE params' = merged.v /\ result' = Ok /\ value' = parsed.v
    /\ raised' = result'
    /\ before' = params
    /\ pair' = <<>>
    /\ key' = <<>>
    /\ op' = "body"
    /\ n' = n + 1
    /\ UNCHANGED <<param_depth_limit, decoded, input, output>>

\* T::deserialize(Value::Object(merged_params)) after the last source
DecodeRequest(T) ==
    /\ result = Ok /\ decoded = NotDecoded
    /\ n = Len(input.path) + Len(input.query) + (IF input.body.some THEN 1 ELSE 0)
    /\ decoded' = Done(T, deserialize(T, Object(params)))
    /\ op' = "decode"
    /\ UNCHANGED <<param_depth_limit, params, before, pair, key, value, result, raised, n,
                   input, output>>

NextRequest ==
    \/ PathParameter
    \/ QueryPair
    \/ JsonBody
    \/ DecodeRequest(SourceParams)

SpecRequest == InitRequest /\ [][NextRequest]_vars

-----------------------------------------------------------------------------
(* Vocabulary of the properties: the shape of the key of the last operation *)

\* the last operation handed a non-empty key to _normalize_params
Normalized == op \in {"pair", "value"} /\ key # <<>>

\* a non-empty text without brackets
IsPlain(s) == s # <<>> /\ \A i \in 1..Len(s) : s[i] \notin {"[", "]"}

\* the text before the first '[' of a key, and the text from that '[' on
Root(s) == IF Find(s, "[") = 0 THEN s ELSE SubSeq(s, 1, Find(s, "[") - 1)
Rest(s) == IF Find(s, "[") = 0 THEN <<>> ELSE SubSeq(s, Find(s, "["), Len(s))

\* `[c]` with a plain c
IsSegment(s) ==
    Len(s) >= 3 /\ s[1] = "[" /\ s[Len(s)] = "]" /\ IsPlain(SubSeq(s, 2, Len(s) - 1))

\* the c of `[c]`
Inner(s) == SubSeq(s, 2, Len(s) - 1)

\* the value a pair stands for: Null for a bare key, LooseString of the text after '='
\* (the raw values of the model hold no '+', '%' or '=', so they decode to themselves)
PairValue ==
    IF Find(pair, "=") = 0 THEN Null
    ELSE XStr(SubSeq(pair, Find(pair, "=") + 1, Len(pair)))

X == <<"x">>
A == <<"a">>

-----------------------------------------------------------------------------
(* C1: for `k[][c]=v` with a single-segment child key c and tree[k] absent  *)
(* or an Array, v is written into the last element iff that element is an  *)
(* Object without c; otherwise exactly one new Object {c: v} is appended.   *)
C1_HashInArray ==
    LET k == Root(key)
        rest == Rest(key)
        c == Inner(SubSeq(rest, 3, Len(rest)))
        vec == IF k \in DOMAIN before THEN before[k].a ELSE <<>>
        last == vec[Len(vec)]
    IN (/\ Normalized
        /\ IsPlain(k)
        /\ StartsWith(rest, <<"[", "]">>)
        /\ IsSegment(SubSeq(rest, 3, Len(rest)))
        /\ (k \in DOMAIN before => before[k].t = "Array"))
       => /\ result = Ok
          /\ params = Insert(before, k, Array(
                IF Len(vec) > 0 /\ last.t = "Object" /\ c \notin DOMAIN last.m
                THEN [vec EXCEPT ![Len(vec)] = Object(Insert(last.m, c, value))]
                ELSE Append(vec, Object(Insert(EmptyMap, c, value)))))

\* `x[][a]` met a last element that already holds a: a second element was started
C1_Witness ==
    /\ op = "pair" /\ key = <<"x", "[", "]", "[", "a", "]">> /\ result = Ok
    /\ X \in DOMAIN before /\ before[X].t = "Array" /\ Len(before[X].a) = 1
    /\ before[X].a[1].t = "Object" /\ A \in DOMAIN before[X].a[1].m
    /\ Len(params[X].a) = 2

(* C2: an error met at any recursion level of a pair is what the call       *)
(* returns; the call never returns Ok after dropping the pair.              *)
C2_ErrorsPropagate ==
    (op \in {"pair", "value"} /\ raised # Ok) => result = raised

(* C3: `k[i]...` with a non-negative integer i makes tree[k] an Array,      *)
(* extended with empty objects up to index i, the tail normalized into      *)
(* slot i; `numbers[0]=1` on a tree without numbers gives ["1"].            *)
C3_IndexedArray ==
    (/\ Normalized /\ result = Ok
     /\ IsPlain(Root(key)) /\ Rest(key) = <<"[", "0", "]">>
     /\ Root(key) \notin DOMAIN before)
    => params[Root(key)] = Array(<<value>>)

(* C5: after a pair whose key has no brackets, tree[k] is that pair's value *)
(* whatever k held before, no error is raised, and no array is built.       *)
C5_PlainKeyOverwrites ==
    (Normalized /\ IsPlain(key))
    => /\ result = Ok
       /\ key \in DOMAIN params
       /\ params[key] = value
       /\ (op = "pair" => value = PairValue /\ params[key].t # "Array")

\* `x[]=..&x`: the bare key replaced the array by Null
C5_Witness ==
    /\ op = "pair" /\ key = X /\ X \in DOMAIN before /\ before[X].t = "Array"
    /\ Len(before[X].a) = 1 /\ params[X] = Null

(* C6: `k[]=v` (or bare `k[]`) on a tree where k is absent or an Array adds *)
(* exactly one element, LooseString(v) or Null, after the earlier elements, *)
(* which stay unchanged.                                                    *)
C6_ArrayAppend ==
    LET k == Root(key)
        old == IF k \in DOMAIN before THEN before[k].a ELSE <<>>
    IN (/\ Normalized /\ IsPlain(k) /\ Rest(key) = <<"[", "]">>
        /\ (k \in DOMAIN before => before[k].t = "Array"))
       => /\ result = Ok
          /\ params[k].t = "Array"
          /\ params[k].a = Append(old, value)
          /\ (op = "pair" => value = PairValue)

\* `x[]=1&x[]`: ["1", null]
C6_Witness ==
    /\ op = "pair" /\ pair = <<"x", "[", "]">>
    /\ X \in DOMAIN params /\ params[X] = Array(<<XStr(<<"1">>), Null>>)

(* C7: `k[]=v` on a k that is not an Array, and `k[sub]=v` on a k that is   *)
(* not an Object, fail with a ParameterTypeError naming k and leave the     *)
(* value stored at k as it was.                                             *)
C7_TypeMismatch ==
    LET k == Root(key)
        rest == Rest(key)
    IN (/\ Normalized /\ IsPlain(k) /\ k \in DOMAIN before
        /\ \/ rest = <<"[", "]">> /\ before[k].t # "Array"
           \/ IsSegment(rest) /\ before[k].t # "Object")
       => /\ result = ParameterTypeError(
                         IF rest = <<"[", "]">> THEN "Array" ELSE "Object",
                         type_name(before[k]), k)
          /\ params[k] = before[k]
          /\ params = before

\* `x[]=..&x[a]=..`
C7_Witness ==
    /\ op = "pair" /\ key = <<"x", "[", "a", "]">>
    /\ X \in DOMAIN before /\ before[X].t = "Array"
    /\ result.kind = "ParameterTypeError" /\ result.param = X

\* a tail made only of `[]` and `[c]` segments with plain c
RECURSIVE WellFormedTail(_)
WellFormedTail(s) ==
    IF s = <<>> THEN TRUE
    ELSE IF s[1] # "[" THEN FALSE
    ELSE LET j == Find(s, "]") IN
         /\ j # 0
         /\ (j = 2 \/ IsPlain(SubSeq(s, 2, j - 1)))
         /\ WellFormedTail(SubSeq(s, j + 1, Len(s)))

\* the key holds a bracket that is not part of a `[]` or `[c]` segment after a plain root
HasStray(s) ==
    /\ \E i \in 1..Len(s) : s[i] \in {"[", "]"}
    /\ ~(IsPlain(Root(s)) /\ WellFormedTail(Rest(s)))

\* `k[h]i` with plain k, h and i
IsTrailing(s) ==
    LET rest == Rest(s)
        j == Find(rest, "]")
    IN /\ IsPlain(Root(s)) /\ rest # <<>> /\ j > 2 /\ j < Len(rest)
       /\ IsPlain(SubSeq(rest, 2, j - 1))
       /\ IsPlain(SubSeq(rest, j + 1, Len(rest)))

Count(s) == Cardinality({i \in 1..Len(s) : s[i] = "["})

\* the depth of the Objects nested under a value
RECURSIVE Depth(_)
Depth(v) ==
    IF v.t = "Object" /\ DOMAIN v.m # {}
    THEN 1 + Depth(v.m[CHOOSE k \in DOMAIN v.m : TRUE])
    ELSE 0

(* C4: with depth limit L, `foo` followed by n segments `[a]` parses if     *)
(* and only if n < L, and fails with ParamsTooDeepError otherwise.          *)
C4_DepthLimit ==
    op = "query"
    => IF Count(key) < param_depth_limit
       THEN /\ result = Ok
            /\ DOMAIN params = {<<"f", "o", "o">>}
            /\ Depth(params[<<"f", "o", "o">>]) = Count(key)
       ELSE result = ParamsTooDeepError /\ params = EmptyMap

\* the deepest key a limit of 4 lets through: three segments
C4_Witness ==
    /\ op = "query" /\ param_depth_limit = 4 /\ Count(key) = 3 /\ result = Ok
    /\ Depth(params[<<"f", "o", "o">>]) = 3

\* the segments of a tail made of `[c]` segments
RECURSIVE Segments(_)
Segments(s) ==
    IF s = <<>> THEN <<>>
    ELSE <<SubSeq(s, 2, Find(s, "]") - 1)>> \o Segments(SubSeq(s, Find(s, "]") + 1, Len(s)))

\* `a[b1]...[bn]` with plain a, b1 .. bn and n >= 1
IsNamedPath(s) ==
    /\ IsPlain(Root(s)) /\ Rest(s) # <<>> /\ WellFormedTail(Rest(s))
    /\ ~Contains(s, <<"[", "]">>)

\* every node of m on the way to the last name of the path is absent or an Object
RECURSIVE PathFree(_, _)
PathFree(m, path) ==
    \/ Len(path) = 1
    \/ path[1] \notin DOMAIN m
    \/ m[path[1]].t = "Object" /\ PathFree(m[path[1]].m, Tail(path))

\* m with v written at the path, the missing Objects created, the rest as it was
RECURSIVE WithPath(_, _, _)
WithPath(m, path, v) ==
    IF Len(path) = 1 THEN Insert(m, path[1], v)
    ELSE Insert(m, path[1],
            Object(WithPath(IF path[1] \in DOMAIN m THEN m[path[1]].m ELSE EmptyMap,
                            Tail(path), v)))

\* the first half of C8: what the parser leaves in the tree
NestedPathWritten ==
    LET path == <<Root(key)>> \o Segments(Rest(key))
    IN (Normalized /\ IsNamedPath(key) /\ PathFree(before, path))
       => /\ result = Ok
          /\ params = WithPath(before, path, value)
          /\ (op = "pair" => value = PairValue)

(* C8: a key `a[b1]...[bn]` of named segments, on a tree whose nodes along  *)
(* the path are Objects or absent, leaves the pair's value at the path,     *)
(* creates the missing Objects and changes nothing else; and the tree of    *)
(* `a[b]=s` decoded into struct { a: struct { b: String } } gives b == s.   *)
C8_NestedPath ==
    /\ NestedPathWritten
    /\ (/\ op = "decode" /\ decoded.T = NestedParams
        /\ DOMAIN params = {X} /\ params[X].t = "Object"
        /\ DOMAIN params[X].m = {A} /\ params[X].m[A].t = "XStr")
       => decoded.r = Decoded(X :> (A :> params[X].m[A].s))

(* C10: a LooseString(s) decoded into a String field, a String map value    *)
(* or a newtype over String yields s unchanged, whatever s looks like.      *)
C10_StringUnchanged ==
    (op = "decode" /\ value.t = "XStr")
    => /\ decoded.T = TString => decoded.r = Decoded(value.s)
       /\ decoded.T = TNewtype(TString) => decoded.r = Decoded(value.s)
       /\ decoded.T = TStruct(<<[name |-> X, ty |-> TString]>>)
             => decoded.r = Decoded(X :> value.s)
       /\ decoded.T = THashMap(TString) => decoded.r = Decoded(X :> value.s)
       /\ decoded.T = TStruct(<<[name |-> X, ty |-> TNewtype(TString)]>>)
             => decoded.r = Decoded(X :> value.s)
       /\ decoded.T = THashMap(TNewtype(TString)) => decoded.r = Decoded(X :> value.s)

-----------------------------------------------------------------------------
(* Properties of Value::merge and Value::merge_into (SpecMerge) *)

\* C11: Null is the identity of merge on both sides: a.merge(Null) is Ok(a)
\* and Null.merge(b) is Ok(b) for every value, an Array included (no Null
\* element is appended or prepended), and Null.merge(Null) is Ok(Null).
C11_NullIdentity ==
    input.call = "merge" =>
        /\ input.other = Null => output = OkValue(input.self)
        /\ input.self = Null => output = OkValue(input.other)

\* C17: merge_into(source, existing) succeeds only when source is an Object:
\* the result is then the union of the two maps in which the entries of
\* source win every collision.  Any other source gives a MergeError and no map.
C17_MergeInto ==
    input.call = "merge_into" =>
        IF input.self.t = "Object"
        THEN /\ output.kind = "Ok"
             /\ DOMAIN output.v = (DOMAIN input.a) \cup (DOMAIN input.self.m)
             /\ \A k \in DOMAIN output.v :
                    output.v[k] = IF k \in DOMAIN input.self.m THEN input.self.m[k]
                                  ELSE input.a[k]
        ELSE /\ output.kind = "MergeError"
             /\ "v" \notin DOMAIN output

\* an Object was merged into a map that held another value under one of its keys
C17_Witness ==
    /\ input.call = "merge_into"
    /\ input.self.t = "Object"
    /\ \E k \in (DOMAIN input.a) \cap (DOMAIN input.self.m) :
           input.a[k] # input.self.m[k] /\ output.v[k] = input.self.m[k]

\* C18: for two operands that are not Null, merge succeeds in exactly four
\* cases: Object with Object (union, the argument wins collisions), Array with
\* Array (concatenation, receiver first), Array with a non-Array (appended),
\* non-Array with Array (prepended).  Every other pair gives a MergeError that
\* names both shapes.
C18_MergeShapes ==
    (input.call = "merge" /\ input.self # Null /\ input.other # Null) =>
        LET a == input.self
            b == input.other
        IN IF a.t = "Object" /\ b.t = "Object"
           THEN /\ output.kind = "Ok" /\ output.v.t = "Object"
                /\ DOMAIN output.v.m = (DOMAIN a.m) \cup (DOMAIN b.m)
                /\ \A k \in DOMAIN output.v.m :
                       output.v.m[k] = IF k \in DOMAIN b.m THEN b.m[k] ELSE a.m[k]
           ELSE IF a.t = "Array" /\ b.t = "Array"
           THEN output = OkValue(Array(a.a \o b.a))
           ELSE IF a.t = "Array"
           THEN output = OkValue(Array(a.a \o <<b>>))
           ELSE IF b.t = "Array"
           THEN output = OkValue(Array(<<a>> \o b.a))
           ELSE /\ output.kind = "MergeError"
                /\ output.a = type_name(a)
                /\ output.b = type_name(b)

\* a value that is neither Null nor an Array was appended to a non-empty Array
C18_Witness ==
    /\ input.call = "merge"
    /\ input.self.t = "Array" /\ input.self.a # <<>>
    /\ input.other.t \notin {"Array", "Null"}
    /\ output = OkValue(Array(Append(input.self.a, input.other)))

-----------------------------------------------------------------------------
(* Properties of parse_json (SpecJson) *)

\* the last call was parse_json
Parsed == input.call = "parse_json"

\* the document is one scalar lexeme, alone, in an array or as a member
ScalarDocs(x) ==
    { <<x>>,
      <<Lx("[", <<>>), x, Lx("]", <<>>)>>,
      <<Lx("{", <<>>), Lx("str", <<"k">>), x, Lx("}", <<>>)>> }

\* the value the parse gave the scalar of such a document
ScalarOf(out) ==
    IF out.v.t = "Array" THEN out.v.a[1]
    ELSE IF out.v.t = "Object" THEN out.v.m[<<"k">>]
    ELSE out.v

\* a proper prefix of the document is a complete document with a root
RootThenMore(doc) ==
    \E k \in 1..(Len(doc) - 1) : parse_json(SubSeq(doc, 1, k)).kind = "Ok"

C13_NeverPanics ==
    Parsed => output.kind \in {"Ok", "SyntaxError", "NoMoreInput", "Other"}

\* the digits of a JSON integer literal, and whether it is below zero
Magnitude(s) == IF s[1] = "-" THEN Tail(s) ELSE s
IsNegative(s) == s[1] = "-" /\ \E i \in 2..Len(s) : s[i] # "0"
InI64(s) == MagLeq(Magnitude(s), IF s[1] = "-" THEN I64_MIN_MAGNITUDE ELSE I64_MAX)

\* C14: an integer literal n within the range of i64 becomes PosInt(n) when
\* n >= 0 and NegInt(n) when n < 0; a literal with a fraction or an exponent
\* becomes Float even when its value is integral (1.0, -0.0).
C14_NumberTags ==
    Parsed =>
        \A x \in JsonLiterals :
            input.doc \in ScalarDocs(x) =>
                /\ (IsJsonInt(x.text) /\ InI64(x.text)) =>
                       /\ output.kind = "Ok"
                       /\ ScalarOf(output) =
                              NumberValue([n |-> IF IsNegative(x.text) THEN "NegInt" ELSE "PosInt",
                                           mag |-> Magnitude(x.text)])
                /\ IsJsonFloat(x.text) =>
                       /\ output.kind = "Ok"
                       /\ ScalarOf(output).t = "Number"
                       /\ ScalarOf(output).n.n = "Float"

\* -9007199254740991 was parsed as a member of an object and is a NegInt
C14_Witness ==
    /\ Parsed
    /\ Len(input.doc) = 4
    /\ input.doc[3].lx = "lit"
    /\ input.doc[3].text = <<"-", "9", "0", "0", "7", "1", "9", "9", "2", "5", "4",
                             "7", "4", "0", "9", "9", "1">>
    /\ output.kind = "Ok"
    /\ output.v.m[<<"k">>].n.n = "NegInt"

\* the body of a string holds an escape the grammar does not have, a lone
\* backslash at its end, or a \u without four hex digits after it
RECURSIVE HasBadEscape(_)
HasBadEscape(s) ==
    IF s = <<>> THEN FALSE
    ELSE IF s[1] # "\\" THEN HasBadEscape(Tail(s))
    ELSE IF Len(s) = 1 THEN TRUE
    ELSE IF s[2] \in {"\"", "\\", "/", "b", "f", "n", "r", "t"}
    THEN HasBadEscape(SubSeq(s, 3, Len(s)))
    ELSE IF s[2] = "u" /\ Len(s) >= 6 /\ \A i \in 3..6 : IsHex(s[i])
    THEN HasBadEscape(SubSeq(s, 7, Len(s)))
    ELSE TRUE

C16_JsonScalarTypes ==
    /\ Parsed =>
           \A x \in JsonStrings \cup JsonLiterals :
               (input.doc \in ScalarDocs(x) /\ output.kind = "Ok") =>
                   /\ x.lx = "str" => ScalarOf(output).t = "String"
                   /\ x.text \in {<<"t", "r", "u", "e">>, <<"f", "a", "l", "s", "e">>} =>
                          ScalarOf(output).t = "Bool"
    /\ input.call = "event_to_params_value" =>
           /\ input.event.ev = "ValueString" => output.t = "String"
           /\ input.event.ev \in {"ValueTrue", "ValueFalse"} => output.t = "Bool"

-----------------------------------------------------------------------------
(* Properties of the decoding of a LooseString into a primitive (SpecDecode) *)

\* a LooseString was decoded on its own into a destination of the given kind
DecodedInto(ty) ==
    /\ decoded.state = "done"
    /\ decoded.T.ty = ty
    /\ op = "decode"
    /\ params = EmptyMap
    /\ value.t = "XStr"

\* the text is a literal of the integer type: digits after an optional sign,
\* where only a signed type has a minus sign
IsLiteralOf(T, s) ==
    /\ s # <<>>
    /\ IsDigits(IF s[1] = "+" \/ (T.signed /\ s[1] = "-") THEN Tail(s) ELSE s)

\* the number such a literal denotes, and whether the type holds it
LiteralValue(s) == Number(s[1] = "-", IF s[1] \in {"+", "-"} THEN Tail(s) ELSE s)
InRangeOf(T, num) == MagLeq(num.mag, MaxMagnitude(T.signed, T.bits, num.neg))

\* C19: decoding LooseString(s) into an integer destination succeeds with
\* the value n exactly when s is a decimal literal of n within the range of
\* the type; any other text fails with a decode error, without wrapping or
\* truncating: "300" into u8, "-1" into u64 and "2147483648" into i32 fail,
\* and "42" decodes to 42.
C19_IntegerDestination ==
    DecodedInto("Integer") =>
        LET T == decoded.T
            s == value.s
            fits == IsLiteralOf(T, s) /\ InRangeOf(T, LiteralValue(s))
        IN /\ decoded.r.ok <=> fits
           /\ decoded.r.ok => decoded.r.v = LiteralValue(s)
           /\ (s = <<"3", "0", "0">> /\ T = TInteger(FALSE, 8)) => ~decoded.r.ok
           /\ (s = <<"-", "1">> /\ ~T.signed) => ~decoded.r.ok
           /\ (s = <<"2", "1", "4", "7", "4", "8", "3", "6", "4", "8">> /\ T.bits <= 32
                   /\ T.signed) => ~decoded.r.ok
           /\ s = <<"4", "2">> => decoded.r = Decoded(Number(FALSE, <<"4", "2">>))

\* "2147483648" was decoded into i32 and refused
C19_Witness ==
    /\ DecodedInto("Integer")
    /\ decoded.T = TInteger(TRUE, 32)
    /\ value.s = <<"2", "1", "4", "7", "4", "8", "3", "6", "4", "8">>
    /\ ~decoded.r.ok

\* C20: decoding LooseString(s) into a boolean destination gives true when s
\* is, in any letter case, one of true, 1, on, yes; false when it is one of
\* false, 0, off, no; and a decode error for every other text, "42" and the
\* empty text included.
C20_BoolDestination ==
    DecodedInto("bool") =>
        LET l == ToLowercase(value.s)
            yes == l \in {<<"t", "r", "u", "e">>, <<"1">>, <<"o", "n">>, <<"y", "e", "s">>}
            no == l \in {<<"f", "a", "l", "s", "e">>, <<"0">>, <<"o", "f", "f">>, <<"n", "o">>}
        IN /\ yes => decoded.r = Decoded(TRUE)
           /\ no => decoded.r = Decoded(FALSE)
           /\ ~(yes \/ no) => ~decoded.r.ok
           /\ value.s \in {<<"4", "2">>, <<>>} => ~decoded.r.ok

\* "TRUE" was decoded into bool and gave true
C20_Witness ==
    /\ DecodedInto("bool")
    /\ value.s = <<"T", "R", "U", "E">>
    /\ decoded.r = Decoded(TRUE)

-----------------------------------------------------------------------------
(* Properties of the decoding of uploads and of Option destinations (SpecDecode) *)

\* a value was decoded on its own
DecodedAlone == decoded.state = "done" /\ op = "decode" /\ params = EmptyMap

\* the three fields of an upload by their names
FieldsOf(file) ==
    Insert(Insert(Insert(EmptyMap,
        <<"n", "a", "m", "e">>, file.name),
        <<"c", "o", "n", "t", "e", "n", "t", "_", "t", "y", "p", "e">>, file.content_type),
        <<"t", "e", "m", "p", "_", "f", "i", "l", "e", "_", "p", "a", "t", "h">>,
            file.temp_file_path)

\* C21: an UploadFile is shown to the destination as a map of exactly three
\* string fields, name, content_type and temp_file_path, each equal to the
\* stored field: a struct of these three fields (and a map of strings) gets
\* all three unchanged, and a plain String destination gets a decode error.
C21_UploadFileFields ==
    (DecodedAlone /\ value.t = "UploadFile") =>
        /\ decoded.T = UploadFileFields => decoded.r = Decoded(FieldsOf(value))
        /\ decoded.T = THashMap(TString) => decoded.r = Decoded(FieldsOf(value))
        /\ decoded.T = TString => ~decoded.r.ok

\* an upload whose name and content type differ was decoded into the struct
C21_Witness ==
    /\ DecodedAlone
    /\ value.t = "UploadFile"
    /\ value.name # value.content_type
    /\ decoded.T = UploadFileFields
    /\ decoded.r.ok

\* C22: into an Option destination Null decodes to None, and every other
\* source, the empty LooseString included, decodes to Some of what the inner
\* type decodes that same value to; when the inner decode fails the result
\* is an error, not None.
C22_OptionDestination ==
    (DecodedAlone /\ decoded.T.ty = "Option") =>
        LET inner == deserialize(decoded.T.inner, value)
        IN /\ value = Null => decoded.r = Decoded(None)
           /\ (value # Null /\ inner.ok) => decoded.r = Decoded(Some(inner.v))
           /\ (value # Null /\ ~inner.ok) => ~decoded.r.ok
           /\ (value = XStr(<<>>) /\ decoded.T = TOption(TString)) =>
                  decoded.r = Decoded(Some(<<>>))
           /\ (value = XStr(<<"o", "n">>) /\ decoded.T = TOption(TBool)) =>
                  decoded.r = Decoded(Some(TRUE))
           /\ (value = XStr(<<>>) /\ decoded.T = TOption(TBool)) => ~decoded.r.ok

\* the empty LooseString was decoded into Option<String> and is present
C22_Witness ==
    /\ DecodedAlone
    /\ value = XStr(<<>>)
    /\ decoded.T = TOption(TString)
    /\ decoded.r = Decoded(Some(<<>>))

-----------------------------------------------------------------------------
(* Properties of empty keys, of the value of a pair and of the key's first  *)
(* character (Spec)                                                          *)

\* C23: a pair whose key is empty (`=value`, `=`), and a parse_nested_value
\* call with an empty key, return Ok and leave the tree exactly as it was.
C23_EmptyKey ==
    (\/ op = "pair" /\ pair # <<>> /\ pair[1] = "="
     \/ op = "value" /\ key = <<>>)
    => result = Ok /\ raised = Ok /\ params = before

\* the pair `=1` arrived when the tree was not empty, and the tree is as before
C23_Witness ==
    /\ op = "pair"
    /\ pair = <<"=", "1">>
    /\ before # EmptyMap
    /\ result = Ok
    /\ params = before

-----------------------------------------------------------------------------
\* the child path of a key `k[][c1]...[cn]`: the text after `k[]`
ChildPath(s) == SubSeq(Rest(s), 3, Len(Rest(s)))

\* the child path is found in the element: every segment but the last leads
\* to an Object and the last is present, or the way meets a value that is
\* not an Object
RECURSIVE Resolves(_, _)
Resolves(elem, segs) ==
    \/ segs = <<>>
    \/ /\ segs[1] \in DOMAIN elem
       /\ \/ elem[segs[1]].t # "Object"
          \/ Resolves(elem[segs[1]].m, Tail(segs))

\* a pair `k[][c1]...[cn]=v` with n >= 2 has met an Array at k whose last
\* element is an Object
MultiSegmentChild ==
    /\ op = "pair" /\ key # <<>> /\ Len(Rest(key)) > 2
    /\ SubSeq(Rest(key), 1, 2) = <<"[", "]">>
    /\ Count(ChildPath(key)) >= 2
    /\ Root(key) \in DOMAIN before
    /\ before[Root(key)].t = "Array"
    /\ before[Root(key)].a # <<>>
    /\ before[Root(key)].a[Len(before[Root(key)].a)].t = "Object"

\* the child path of the pair is seen in the last element
SeenInLast ==
    LET vec == before[Root(key)].a
    IN /\ ~Contains(ChildPath(key), <<"[", "]">>)
       /\ Resolves(vec[Len(vec)].m, Segments(ChildPath(key)))

\* the element the five leaves of one round make
RoundElement(d) ==
    LET leaf == XStr(<<d>>)
    IN Object(Insert(Insert(Insert(EmptyMap,
            <<"i", "d">>, leaf),
            <<"y">>, Object(Insert(Insert(EmptyMap, <<"a">>, leaf), <<"b">>, leaf))),
            <<"z">>, Object(Insert(Insert(EmptyMap, <<"i", "d">>, leaf), <<"w">>, leaf))))

\* the request sends the five leaves MaxRounds times and all its pairs are read
RepeatedRead ==
    /\ input.call = "from_request"
    /\ Len(input.query) = 5 * MaxRounds
    /\ n = 5 * MaxRounds

(* C24: a pair `x[][c1]...[cn]=v` with n >= 2 starts a new element exactly   *)
(* when its child path holds no `[]` and resolves in the last element (the  *)
(* way to the last segment exists, or meets a value that is not an Object); *)
(* otherwise the last element is filled and the number of elements stays.   *)
(* The leaves id, y[a], y[b], z[id], z[w] sent MaxRounds times, in any one  *)
(* order, leave exactly MaxRounds elements, each with all five leaves.      *)
C24_FullChildPath ==
    /\ MultiSegmentChild =>
          LET vec == before[Root(key)].a
              now == params[Root(key)].a
          IN /\ result = Ok
             /\ params[Root(key)].t = "Array"
             /\ IF SeenInLast
                THEN Len(now) = Len(vec) + 1 /\ SubSeq(now, 1, Len(vec)) = vec
                ELSE /\ Len(now) = Len(vec)
                     /\ SubSeq(now, 1, Len(vec) - 1) = SubSeq(vec, 1, Len(vec) - 1)
    /\ RepeatedRead =>
          /\ result = Ok
          /\ params = Insert(EmptyMap, X,
                         Array([r \in 1..MaxRounds |-> RoundElement(Digits[r + 1])]))

C24_Witness ==
    /\ MultiSegmentChild /\ SeenInLast /\ n = 6
    /\ Len(input.query) = 5 * MaxRounds
    /\ Len(params[X].a) = 2

-----------------------------------------------------------------------------
(* C25: a JSON part with a plain name k that meets an Array or an Object at *)
(* k leaves merge(prior, parsed) at k (object union, array concatenation),  *)
(* not the parsed value alone.                                              *)
C25_JsonPartMerges ==
    (/\ op = "value" /\ IsPlain(key)
     /\ value.t \in {"Array", "Object"}
     /\ key \in DOMAIN before
     /\ before[key].t \in {"Array", "Object"}
     /\ merge(before[key], value).kind = "Ok")
    => /\ result = Ok
       /\ params[key] = merge(before[key], value).v

-----------------------------------------------------------------------------
\* a JSON object whose members are all strings without escapes: `{`, then
\* key and value by turns, then `}`
FlatBody(doc) ==
    /\ Len(doc) >= 4 /\ Len(doc) % 2 = 0
    /\ doc[1].lx = "{" /\ doc[Len(doc)].lx = "}"
    /\ \A i \in 2..(Len(doc) - 1) : doc[i].lx = "str" /\ Find(doc[i].text, "\\") = 0

\* the text of a pair before and after its '='
LeftOf(p) == SubSeq(p, 1, Find(p, "=") - 1)
RightOf(p) == SubSeq(p, Find(p, "=") + 1, Len(p))

\* a pair with exactly one '=' and a key without brackets that begins with a
\* character of one byte
SimplePair ==
    /\ op = "pair" /\ Find(pair, "=") > 1
    /\ Find(RightOf(pair), "=") = 0
    /\ IsPlain(key) /\ IsSingleByte(key[1])

(* C26: the members of a JSON body enter the tree under their key texts as  *)
(* they stand and with their string values as they stand, without percent-  *)
(* decoding and without bracket expansion; a query pair is cut at its '='   *)
(* first and both halves are percent-decoded afterwards, so `%3D` and `%26` *)
(* stay part of the key or the value.                                       *)
C26_JsonKeysVerbatim ==
    /\ (op = "body" /\ FlatBody(input.body.v)) =>
          LET doc == input.body.v
              members == {i \in 2..(Len(doc) - 1) : i % 2 = 0}
          IN /\ result = Ok
             /\ DOMAIN params = DOMAIN before \cup {doc[i].text : i \in members}
             /\ \A i \in members : params[doc[i].text] = String(doc[i + 1].text)
    /\ SimplePair =>
          /\ result = Ok
          /\ key = Utf8Lossy(PercentDecode(LeftOf(pair)))
          /\ params[key] = XStr(Utf8Lossy(PercentDecode(RightOf(pair))))
          /\ DOMAIN params = DOMAIN before \cup {key}

\* a body whose key and value hold `%3D` has been merged, and a key with
\* brackets stands in the tree as one key
C26_Witness ==
    /\ op = "body" /\ FlatBody(input.body.v)
    /\ \E k \in DOMAIN params : Contains(k, <<"%", "3", "D">>) /\ params[k].t = "String"
    /\ \E k \in DOMAIN params :
          params[k].t = "String" /\ Contains(params[k].s, <<"%", "3", "D">>)

\* a pair whose key was sent with `%3D` has been stored under a key with '='
C26_WitnessQuery ==
    /\ SimplePair /\ Contains(pair, <<"%", "3", "D">>) /\ Find(key, "=") # 0

-----------------------------------------------------------------------------
(* C27: for a pair `k=v` the stored value is the percent-decoding of all    *)
(* the text after the first '=' of the pair, further '=' characters         *)
(* included (`y=1=1` stores "1=1" under y).                                 *)
C27_WholeValue ==
    (/\ op = "pair" /\ Find(pair, "=") > 1
     /\ IsPlain(key) /\ IsSingleByte(key[1]))
    => /\ result = Ok
       /\ params[key] = XStr(Utf8Lossy(PercentDecode(RightOf(pair))))

-----------------------------------------------------------------------------
(* C28: normalizing a pair never aborts, whatever the first character of    *)
(* its decoded key: the result is Ok or a QueryParserError, and a key       *)
(* without a '[' after its first character is taken whole as the root key.  *)
C28_NeverAborts ==
    (op = "pair" /\ key # <<>>)
    => /\ result.kind # "Panic"
       /\ Find(Tail(key), "[") = 0 =>
             result = Ok /\ params = Insert(before, key, value)

-----------------------------------------------------------------------------
\* every pair of the query has exactly one '='
OneEqualsEach ==
    \A i \in 1..Len(input.query) :
        Find(input.query[i], "=") > 1 /\ Find(RightOf(input.query[i]), "=") = 0

\* the request has been read whole and decoded, and its body, if any, is a
\* JSON object of string members
DecodedRequest ==
    /\ op = "decode" /\ input.call = "from_request"
    /\ OneEqualsEach
    /\ input.body.some => FlatBody(input.body.v)

\* where a plain key f stands in each source
InPath(f) == {i \in 1..Len(input.path) : input.path[i][1] = f}
InQuery(f) ==
    {i \in 1..Len(input.query) : Utf8Lossy(PercentDecode(LeftOf(input.query[i]))) = f}
InBody(f) ==
    IF input.body.some
    THEN {i \in 2..(Len(input.body.v) - 1) : i % 2 = 0 /\ input.body.v[i].text = f}
    ELSE {}

\* the text of the latest source that holds f: body over query over path
LatestSource(f) ==
    IF InBody(f) # {}
    THEN Some(input.body.v[(CHOOSE i \in InBody(f) : \A j \in InBody(f) : j <= i) + 1].text)
    ELSE IF InQuery(f) # {}
    THEN Some(Utf8Lossy(PercentDecode(RightOf(
            input.query[CHOOSE i \in InQuery(f) : \A j \in InQuery(f) : j <= i]))))
    ELSE IF InPath(f) # {}
    THEN Some(input.path[CHOOSE i \in InPath(f) : TRUE][2])
    ELSE None

(* C29: the sources are folded in the order path parameters, query string,  *)
(* body, so each field of the decoded record holds the text of the latest   *)
(* source that has its key (body over query over path), a key of a single   *)
(* source keeps its text, and a key of no source decodes to None.           *)
C29_SourceOrder ==
    DecodedRequest =>
        decoded.r = Decoded([f \in {<<"y">>, <<"i">>, <<"k">>, <<"j">>} |-> LatestSource(f)])

\* y came with the path, the query and the body; i, k and j with one each
C29_Witness ==
    /\ DecodedRequest
    /\ InPath(<<"y">>) # {} /\ InQuery(<<"y">>) # {} /\ InBody(<<"y">>) # {}
    /\ InPath(<<"i">>) # {} /\ InQuery(<<"k">>) # {} /\ InBody(<<"j">>) # {}
    /\ decoded.r.ok
    /\ decoded.r.v[<<"y">>] = Some(<<"b">>)
    /\ decoded.r.v[<<"i">>] = Some(<<"p">>)
    /\ decoded.r.v[<<"k">>] = Some(<<"q">>)
    /\ decoded.r.v[<<"j">>] = Some(<<"b">>)

-----------------------------------------------------------------------------
\* a JSON body that is an object has been merged into the tree
BodyMerged == op = "body" /\ result = Ok /\ value.t = "Object"

(* C30: merge_into is shallow: every key of the body holds the body's value *)
(* afterwards, also where the tree held an Object at that key (after the    *)
(* query `x[a]=q` the body {"x": {"b": 1}} leaves x = {"b": 1}, without a), *)
(* and every other key of the tree keeps its value.                         *)
C30_ShallowMerge ==
    BodyMerged =>
        /\ DOMAIN params = DOMAIN before \cup DOMAIN value.m
        /\ \A k \in DOMAIN value.m : params[k] = value.m[k]
        /\ \A k \in DOMAIN before \ DOMAIN value.m : params[k] = before[k]
        /\ (X \in DOMAIN before /\ X \in DOMAIN value.m /\ value.m[X].t = "Object") =>
              A \notin DOMAIN params[X].m

\* the body brought an Object for x where the tree held {a: q}, and the tree
\* held another key as well
C30_Witness ==
    /\ BodyMerged
    /\ X \in DOMAIN before /\ before[X] = Object(Insert(EmptyMap, A, XStr(<<"q">>)))
    /\ X \in DOMAIN value.m /\ value.m[X].t = "Object"
    /\ DOMAIN params[X].m = {<<"b">>}
    /\ <<"y">> \in DOMAIN before /\ params[<<"y">>] = before[<<"y">>]

====
